---- MODULE Spec2Model ----
(***************************************************************************)
(* Model of estafette-extension-gke: the reconciliation pass of main()     *)
(* (src/main.go).  One behaviour is one invocation of the extension.  The  *)
(* state is the resolved configuration, the position of main, the list of  *)
(* external commands issued so far with their exit status, the two         *)
(* package-level troubleshooting variables, and the objects of the         *)
(* application in the target namespace of the cluster.                     *)
(* PipeSpec follows the processes and goroutines around the io.Pipe of     *)
(* assistTroubleshooting step by step; ResolveSpec applies SetDefaults and *)
(* ValidateRequiredProperties to Params values.                            *)
(***************************************************************************)
EXTENDS Naturals, Sequences, FiniteSets, TLC

VARIABLES
    params,                       \* the resolved Params (main.go:101-125)
    tmpl,                         \* TRUE iff buildTemplates returned a non-nil template (main.go:128)
    pc,                           \* position of main
    ret,                          \* where control goes once assistTroubleshooting returns
    todo,                         \* commands of the switch at main.go:220 still to be run
    issued,                       \* external commands run so far, with their exit status
    serviceType,                  \* local of patchServiceIfRequired (main.go:320)
    assistTroubleshootingOnError, \* main.go:38
    paramsForTroubleshooting,     \* main.go:39
    cluster,                      \* objects present in the namespace
    svc,                          \* .spec.type of the service <app>, "" when it does not exist
    abnormal,                     \* TRUE once a command ended otherwise than a healthy cluster decides
    prior,                        \* the tracks present when the invocation started
    env,                          \* what main is given: credentials parameter, release name, credentials
    written,                      \* the files main has written
    pipe,                         \* c1, c2 and the io.Pipe between them (main.go:261-277)
    resolution,                   \* a Params value on its way through SetDefaults and validation
    composition,                  \* a template list on its way through getTemplates
    passes,                       \* the invocations with these params so far, and the
                                  \* objects the one before left in the cluster
    layering                      \* the params of main on their way from the credential's
                                  \* defaults to the rendering of the config files

\* everything but the pipe of assistTroubleshooting
mainVars == <<params, tmpl, pc, ret, todo, issued, serviceType,
              assistTroubleshootingOnError, paramsForTroubleshooting,
              cluster, svc, abnormal, prior, env, written>>

\* what the steps of main leave alone
otherVars == <<pipe, resolution, composition, layering, passes>>

vars == <<mainVars, pipe, resolution, composition, layering, passes>>

----------------------------------------------------------------------------
(* Bounds of the model *)

\* largest number of entries of params.LocalManifests
MaxLocalManifests == 2

\* largest number of changes that make a Params value given to SetDefaults
\* or to ValidateRequiredProperties out of Params{} or of validParams
MaxChanged == 1

\* largest number of chunks kubectl get events writes to its standard output
MaxOutput == 2

\* largest number of entries of params.Configs.Files
MaxFiles == 1

\* largest number of entries of params.Secrets.Keys
MaxKeys == 1

----------------------------------------------------------------------------
(* Inputs *)

Actions == {"deploy-simple", "deploy-canary", "deploy-stable", "rollback-canary"}

Visibilities == {"public", "private", "iap"}

Tracks == {"canary", "stable", "simple"}

ServiceTypes == {"ClusterIP", "NodePort", "LoadBalancer"}

AppName == "myapp"

AppNamespace == "mynamespace"

\* Params{} as declared at main.go:39
EmptyParams ==
    [App |-> "", Namespace |-> "", Action |-> "", Visibility |-> "",
     DryRun |-> FALSE, Files |-> 0, Keys |-> 0]

\* the configurations that pass validation (main.go:119-125); Files and Keys
\* stand for len(params.Configs.Files) and len(params.Secrets.Keys)
ValidParams ==
    [App : {AppName}, Namespace : {AppNamespace}, Action : Actions,
     Visibility : Visibilities, DryRun : BOOLEAN,
     Files : 0..MaxFiles, Keys : 0..MaxKeys]

\* configurations without an action: neither the parameters nor the flag
\* of main.go:36 name one
ParamsWithoutAction ==
    [App : {AppName}, Namespace : {AppNamespace}, Action : {""},
     Visibility : Visibilities, DryRun : BOOLEAN,
     Files : 0..MaxFiles, Keys : 0..MaxKeys]

\* configurations with a required field empty or a visibility that is none
InvalidParams ==
    { [App |-> "", Namespace |-> AppNamespace, Action |-> "deploy-simple",
       Visibility |-> "private", DryRun |-> FALSE, Files |-> 0, Keys |-> 0],
      [App |-> AppName, Namespace |-> "", Action |-> "deploy-canary",
       Visibility |-> "public", DryRun |-> FALSE, Files |-> 0, Keys |-> 0],
      [App |-> AppName, Namespace |-> AppNamespace, Action |-> "deploy-stable",
       Visibility |-> "everywhere", DryRun |-> FALSE, Files |-> 0, Keys |-> 0] }

\* the params that main.go:101-119 can resolve
InputParams == ValidParams \cup ParamsWithoutAction \cup InvalidParams

\* a credential of the injected list (main.go:89), with its zone
Credential(name, zone) == [name |-> name, zone |-> zone, region |-> ""]

\* what main is given besides the parameters: the credentials parameter
\* (main.go:74), the release name (main.go:35), the credentials (main.go:90)
EnvInputs ==
    { [credentialsParam |-> "", releaseName |-> "production",
       credentials |-> << Credential("gke-development", "europe-west1-b"),
                          Credential("gke-production", "europe-west1-c") >>],
      [credentialsParam |-> "gke-production", releaseName |-> "development",
       credentials |-> << Credential("gke-production", "") >>],
      [credentialsParam |-> "gke-prod", releaseName |-> "production",
       credentials |-> << Credential("gke-production", "europe-west1-c") >>],
      [credentialsParam |-> "", releaseName |-> "",
       credentials |-> << Credential("gke-production", "europe-west1-c") >>],
      [credentialsParam |-> "gke-production", releaseName |-> "production",
       credentials |-> << >>] }

----------------------------------------------------------------------------
(* Template data and template set *)

\* templateData.Name (main.go:137, used at 210-243)
Name(p) == p.App

\* templateData.NameWithTrack (main.go:216)
NameWithTrack(p) ==
    CASE p.Action = "deploy-canary" -> p.App \o "-canary"
      [] p.Action = "deploy-stable" -> p.App \o "-stable"
      [] OTHER -> p.App

\* buildTemplates (main.go:128): nil exactly when no manifest step exists for
\* the action
buildTemplates(p) == p.Action # "rollback-canary"

----------------------------------------------------------------------------
(* Commands *)

Cmd(bin, verb, kind, name, opt) ==
    [bin |-> bin, verb |-> verb, kind |-> kind, name |-> name, opt |-> opt]

IgnoreNotFound == "--ignore-not-found=true"

\* DeleteCmd without the option
DeleteCmdFailingWhenAbsent(kind, name) == Cmd("kubectl", "delete", kind, name, "")

DeleteCmd(kind, name) == Cmd("kubectl", "delete", kind, name, IgnoreNotFound)

\* main.go:196
kubectlApplyArgs == Cmd("kubectl", "apply", "file", "/kubernetes.yaml", "")

\* main.go:200
kubectlApplyDryRunArgs == Cmd("kubectl", "apply", "file", "/kubernetes.yaml", "--dry-run")

RolloutCmd(p) == Cmd("kubectl", "rollout-status", "deployment", NameWithTrack(p), "")

GetServiceCmd(p) == Cmd("kubectl", "get", "service", Name(p), "-o=jsonpath={.spec.type}")

\* first patch payload, removes /spec/loadBalancerSourceRanges as well (main.go:328)
PatchWithRangesCmd(p) == Cmd("kubectl", "patch", "service", Name(p), "remove-loadBalancerSourceRanges")

\* second patch payload (main.go:330)
PatchWithoutRangesCmd(p) == Cmd("kubectl", "patch", "service", Name(p), "")

\* main.go:254
GetObjectsCmd(p) == Cmd("kubectl", "get", "ing,svc,cm,secret,deploy,pdb,hpa,po,ep", "app=" \o p.App, "")

\* main.go:258
CanaryLogsCmd(p) == Cmd("kubectl", "logs", "pod", "app=" \o p.App \o ",track=canary", p.App)

\* main.go:262
GetEventsCmd(p) == Cmd("kubectl", "get", "events", "", "--sort-by=.metadata.creationTimestamp")

\* main.go:263
GrepCmd(p) == Cmd("grep", "grep", "", p.App, "")

GcloudAuthCmd == Cmd("gcloud", "auth", "activate-service-account", "", "--key-file=/key-file.json")

GcloudSetAccountCmd == Cmd("gcloud", "config-set", "account", "", "")

GcloudSetProjectCmd == Cmd("gcloud", "config-set", "project", "", "")

GcloudGetCredentialsCmd == Cmd("gcloud", "container-clusters", "get-credentials", "", "")

\* replicas of the canary deployment asked for by deploy-canary
CanaryReplicasOn == 1

\* replicas of the canary deployment asked for by deploy-stable and rollback-canary
CanaryReplicasOff == 0

scaleCanaryDeployment(name, replicas) ==
    << Cmd("kubectl", "scale", "deploy", name \o "-canary", "--replicas=" \o ToString(replicas)) >>

\* deleteResourcesForTypeSwitch without the delete of the hpa
deleteResourcesForTypeSwitchWithoutHpa(name) ==
    << DeleteCmd("deploy", name),
       DeleteCmd("configmap", name \o "-configs"),
       DeleteCmd("secret", name \o "-secrets"),
       DeleteCmd("pdb", name) >>

deleteResourcesForTypeSwitch(name) ==
    << DeleteCmd("deploy", name),
       DeleteCmd("configmap", name \o "-configs"),
       DeleteCmd("secret", name \o "-secrets"),
       DeleteCmd("hpa", name),
       DeleteCmd("pdb", name) >>

deleteConfigsForParamsChange(p, name) ==
    IF p.Files = 0 THEN << DeleteCmd("configmap", name \o "-configs") >> ELSE << >>

\* deleteSecretsForParamsChange testing the config files instead of the secret keys
deleteSecretsForParamsChangeTestingConfigs(p, name) ==
    IF p.Files = 0 THEN << DeleteCmd("secret", name \o "-secrets") >> ELSE << >>

deleteSecretsForParamsChange(p, name) ==
    IF p.Keys = 0 THEN << DeleteCmd("secret", name \o "-secrets") >> ELSE << >>

\* deleteIngressForVisibilityChange without the test of the visibility
deleteIngressAlways(p, name) ==
    << DeleteCmd("ingress", name) >>

deleteIngressForVisibilityChange(p, name) ==
    IF p.Visibility = "public" THEN << DeleteCmd("ingress", name) >> ELSE << >>

CloudflareAnnotations ==
    << "estafette.io/cloudflare-dns-", "estafette.io/cloudflare-proxy-",
       "estafette.io/cloudflare-hostnames-", "estafette.io/cloudflare-state-" >>

\* the annotations removed for the visibility public instead
removeEstafetteCloudflareAnnotationsWhenPublic(p, name) ==
    IF p.Visibility = "public"
    THEN [i \in 1..Len(CloudflareAnnotations) |->
              Cmd("kubectl", "annotate", "svc", name, CloudflareAnnotations[i])]
    ELSE << >>

removeEstafetteCloudflareAnnotations(p, name) ==
    IF p.Visibility = "private" \/ p.Visibility = "iap"
    THEN [i \in 1..Len(CloudflareAnnotations) |->
              Cmd("kubectl", "annotate", "svc", name, CloudflareAnnotations[i])]
    ELSE << >>

\* the switch on params.Action (main.go:220-245): the commands it runs, in order
SwitchCommands(p) ==
    CASE p.Action = "deploy-canary" ->
             scaleCanaryDeployment(Name(p), CanaryReplicasOn)
             \o deleteConfigsForParamsChange(p, Name(p) \o "-canary")
             \o deleteSecretsForParamsChange(p, Name(p) \o "-canary")
      [] p.Action = "deploy-stable" ->
             scaleCanaryDeployment(Name(p), CanaryReplicasOff)
             \o deleteResourcesForTypeSwitch(Name(p))
             \o deleteConfigsForParamsChange(p, Name(p) \o "-stable")
             \o deleteSecretsForParamsChange(p, Name(p) \o "-stable")
             \o deleteIngressForVisibilityChange(p, Name(p))
             \o removeEstafetteCloudflareAnnotations(p, Name(p))
      [] p.Action = "rollback-canary" ->
             scaleCanaryDeployment(Name(p), CanaryReplicasOff)
      [] p.Action = "deploy-simple" ->
             deleteResourcesForTypeSwitch(Name(p) \o "-canary")
             \o deleteResourcesForTypeSwitch(Name(p) \o "-stable")
             \o deleteConfigsForParamsChange(p, Name(p))
             \o deleteSecretsForParamsChange(p, Name(p))
             \o deleteIngressForVisibilityChange(p, Name(p))
             \o removeEstafetteCloudflareAnnotations(p, Name(p))
      [] OTHER -> << >>

----------------------------------------------------------------------------
(* The cluster *)

Obj(kind, name) == [kind |-> kind, name |-> name]

\* the objects that make up one track: what deleteResourcesForTypeSwitch removes
TrackObjects(n, files, keys) ==
    {Obj("deploy", n), Obj("hpa", n), Obj("pdb", n)}
    \cup (IF files > 0 THEN {Obj("configmap", n \o "-configs")} ELSE {})
    \cup (IF keys > 0 THEN {Obj("secret", n \o "-secrets")} ELSE {})

TrackName(app, t) == IF t = "simple" THEN app ELSE app \o "-" \o t

\* what the rendered manifest holds for p
ManifestObjects(p) ==
    TrackObjects(NameWithTrack(p), p.Files, p.Keys)
    \cup (IF p.Visibility \in {"private", "iap"} THEN {Obj("ingress", Name(p))} ELSE {})

\* the service type the rendered manifest asks for
ManifestServiceType(p) ==
    CASE p.Visibility = "public" -> "LoadBalancer"
      [] p.Visibility = "iap" -> "NodePort"
      [] OTHER -> "ClusterIP"

\* the objects left behind by earlier invocations that deployed the tracks T
PriorCluster(T, ingress) ==
    UNION {TrackObjects(TrackName(AppName, t), 1, 1) : t \in T}
    \cup (IF ingress THEN {Obj("ingress", AppName)} ELSE {})

\* the objects of the cluster after command c of configuration p succeeded
ClusterAfter(c, p, cl) ==
    CASE c.verb = "apply" /\ c.opt = "" -> cl \cup ManifestObjects(p)
      [] c.verb = "delete" -> cl \ {Obj(c.kind, c.name)}
      [] OTHER -> cl

\* the type of the service after command c of configuration p succeeded
ServiceAfter(c, p, s) ==
    CASE c.verb = "apply" /\ c.opt = "" -> ManifestServiceType(p)
      [] c.verb = "patch" -> "ClusterIP"
      [] OTHER -> s

\* the exit status a healthy cluster gives command c: TRUE for exit status 0
Normal(c, cl, s) ==
    CASE c.verb = "scale" -> Obj("deploy", c.name) \in cl
      [] c.verb = "rollout-status" -> Obj("deploy", c.name) \in cl
      [] c.verb = "delete" -> c.opt = IgnoreNotFound \/ Obj(c.kind, c.name) \in cl
      [] c.verb = "get" /\ c.kind = "service" -> s # ""
      [] c.verb = "patch" -> s # ""
      [] c.verb = "annotate" -> s # ""
      [] OTHER -> TRUE

----------------------------------------------------------------------------
(* Params, SetDefaults and ValidateRequiredProperties.  A Params value is  *)
(* a function from the field paths of the Go struct to their values.       *)

StringFields ==
    {"App", "Namespace", "Credentials", "Action", "BuildVersion", "Visibility", "Basepath",
     "Container.ImageRepository", "Container.ImageName", "Container.ImageTag",
     "Container.CPU.Request", "Container.CPU.Limit",
     "Container.Memory.Request", "Container.Memory.Limit",
     "Container.LivenessProbe.Path", "Container.ReadinessProbe.Path",
     "Container.Metrics.Scrape", "Container.Metrics.Path",
     "RollingUpdate.MaxSurge", "RollingUpdate.MaxUnavailable",
     "Sidecar.Type", "Sidecar.Image",
     "Sidecar.CPU.Request", "Sidecar.CPU.Limit",
     "Sidecar.Memory.Request", "Sidecar.Memory.Limit",
     "Configs.MountPath", "Secrets.MountPath"}

IntFields ==
    {"Container.Port",
     "Container.LivenessProbe.InitialDelaySeconds", "Container.LivenessProbe.TimeoutSeconds",
     "Container.ReadinessProbe.InitialDelaySeconds", "Container.ReadinessProbe.TimeoutSeconds",
     "Container.Metrics.Port",
     "Autoscale.MinReplicas", "Autoscale.MaxReplicas", "Autoscale.CPUPercentage"}

ListFields == {"Hosts", "TrustedIPRanges"}

MapFields == {"Labels"}

ParamsFields == StringFields \cup IntFields \cup ListFields \cup MapFields

\* the zero value of a field
ZeroValue(f) ==
    IF f \in IntFields THEN 0
    ELSE IF f \in StringFields THEN ""
    ELSE << >>

\* the field is empty or zero
IsZero(p, f) ==
    IF f \in IntFields THEN p[f] = 0
    ELSE IF f \in StringFields THEN p[f] = ""
    ELSE DOMAIN p[f] = {}

\* Params{}
ZeroParams == [f \in ParamsFields |-> ZeroValue(f)]

\* the baseline of the tests
validParams ==
    [f \in ParamsFields |->
        CASE f = "Credentials" -> "gke-production"
          [] f = "App" -> "myapp"
          [] f = "Namespace" -> "mynamespace"
          [] f = "Autoscale.MinReplicas" -> 3
          [] f = "Autoscale.MaxReplicas" -> 100
          [] f = "Autoscale.CPUPercentage" -> 80
          [] f = "RollingUpdate.MaxSurge" -> "25%"
          [] f = "RollingUpdate.MaxUnavailable" -> "25%"
          [] f = "Container.ImageRepository" -> "estafette"
          [] f = "Container.ImageName" -> "my-app"
          [] f = "Container.ImageTag" -> "1.0.0"
          [] f = "Container.Port" -> 5000
          [] f = "Container.CPU.Request" -> "100m"
          [] f = "Container.CPU.Limit" -> "150m"
          [] f = "Container.Memory.Request" -> "768Mi"
          [] f = "Container.Memory.Limit" -> "1024Mi"
          [] f = "Container.LivenessProbe.Path" -> "/liveness"
          [] f = "Container.LivenessProbe.InitialDelaySeconds" -> 30
          [] f = "Container.LivenessProbe.TimeoutSeconds" -> 1
          [] f = "Container.ReadinessProbe.Path" -> "/readiness"
          [] f = "Container.ReadinessProbe.InitialDelaySeconds" -> 0
          [] f = "Container.ReadinessProbe.TimeoutSeconds" -> 1
          [] f = "Container.Metrics.Scrape" -> "true"
          [] f = "Container.Metrics.Path" -> "/metrics"
          [] f = "Container.Metrics.Port" -> 5000
          [] f = "Visibility" -> "private"
          [] f = "Hosts" -> << "gke.estafette.io" >>
          [] f = "Basepath" -> "/"
          [] f = "Sidecar.Type" -> "openresty"
          [] f = "Sidecar.Image" -> "estafette/openresty-sidecar:1.13.6.1-alpine"
          [] f = "Sidecar.CPU.Request" -> "10m"
          [] f = "Sidecar.CPU.Limit" -> "50m"
          [] f = "Sidecar.Memory.Request" -> "10Mi"
          [] f = "Sidecar.Memory.Limit" -> "50Mi"
          [] OTHER -> ZeroValue(f)]

\* the default of params.TrustedIPRanges
CloudflareIPRanges ==
    << "103.21.244.0/22", "103.22.200.0/22", "103.31.4.0/22", "104.16.0.0/12",
       "108.162.192.0/18", "131.0.72.0/22", "141.101.64.0/18", "162.158.0.0/15",
       "172.64.0.0/13", "173.245.48.0/20", "188.114.96.0/20", "190.93.240.0/20",
       "197.234.240.0/22", "198.41.128.0/17" >>

\* the fields that default to a fixed value, with that value
ConstantDefaults ==
    [f \in {"Visibility", "Basepath", "Container.Port",
            "Container.LivenessProbe.Path", "Container.LivenessProbe.InitialDelaySeconds",
            "Container.LivenessProbe.TimeoutSeconds",
            "Container.ReadinessProbe.Path", "Container.ReadinessProbe.InitialDelaySeconds",
            "Container.ReadinessProbe.TimeoutSeconds",
            "Container.Metrics.Scrape", "Container.Metrics.Path",
            "Autoscale.MinReplicas", "Autoscale.MaxReplicas", "Autoscale.CPUPercentage",
            "RollingUpdate.MaxSurge", "RollingUpdate.MaxUnavailable",
            "Sidecar.Type", "Sidecar.Image",
            "Configs.MountPath", "Secrets.MountPath", "TrustedIPRanges"} |->
        CASE f = "Visibility" -> "private"
          [] f = "Basepath" -> "/"
          [] f = "Container.Port" -> 5000
          [] f = "Container.LivenessProbe.Path" -> "/liveness"
          [] f = "Container.LivenessProbe.InitialDelaySeconds" -> 30
          [] f = "Container.LivenessProbe.TimeoutSeconds" -> 1
          [] f = "Container.ReadinessProbe.Path" -> "/readiness"
          [] f = "Container.ReadinessProbe.InitialDelaySeconds" -> 0
          [] f = "Container.ReadinessProbe.TimeoutSeconds" -> 1
          [] f = "Container.Metrics.Scrape" -> "true"
          [] f = "Container.Metrics.Path" -> "/metrics"
          [] f = "Autoscale.MinReplicas" -> 3
          [] f = "Autoscale.MaxReplicas" -> 100
          [] f = "Autoscale.CPUPercentage" -> 80
          [] f = "RollingUpdate.MaxSurge" -> "25%"
          [] f = "RollingUpdate.MaxUnavailable" -> "25%"
          [] f = "Sidecar.Type" -> "openresty"
          [] f = "Sidecar.Image" -> "estafette/openresty-sidecar:1.13.6.1-alpine"
          [] f = "Configs.MountPath" -> "/configs"
          [] f = "Secrets.MountPath" -> "/secrets"
          [] f = "TrustedIPRanges" -> CloudflareIPRanges]

\* the request/limit pairs with the values both get when both are empty
ResourcePairs ==
    { [request |-> "Container.CPU.Request", limit |-> "Container.CPU.Limit",
       requestDefault |-> "100m", limitDefault |-> "125m"],
      [request |-> "Container.Memory.Request", limit |-> "Container.Memory.Limit",
       requestDefault |-> "128Mi", limitDefault |-> "128Mi"],
      [request |-> "Sidecar.CPU.Request", limit |-> "Sidecar.CPU.Limit",
       requestDefault |-> "10m", limitDefault |-> "50m"],
      [request |-> "Sidecar.Memory.Request", limit |-> "Sidecar.Memory.Limit",
       requestDefault |-> "10Mi", limitDefault |-> "50Mi"] }

\* p with field f set to v, whatever it holds
DefaultToOverwriting(p, f, v) == [p EXCEPT ![f] = v]

\* p with field f set to v when it is empty or zero
DefaultTo(p, f, v) == IF IsZero(p, f) THEN [p EXCEPT ![f] = v] ELSE p

\* every field of ConstantDefaults that is empty or zero gets its constant
setConstantDefaults(p) ==
    [f \in ParamsFields |->
        IF f \in DOMAIN ConstantDefaults /\ IsZero(p, f) THEN ConstantDefaults[f] ELSE p[f]]

\* the request of a pair after defaulting, the limit not looked at
resolvedRequestWithoutFallback(p, pair) ==
    IF p[pair.request] # "" THEN p[pair.request] ELSE pair.requestDefault

\* the request of a pair after defaulting: kept, else the limit, else the constant
resolvedRequest(p, pair) ==
    IF p[pair.request] # "" THEN p[pair.request]
    ELSE IF p[pair.limit] # "" THEN p[pair.limit]
    ELSE pair.requestDefault

\* the limit of a pair after defaulting: kept, else the request, else the constant
resolvedLimit(p, pair) ==
    IF p[pair.limit] # "" THEN p[pair.limit]
    ELSE IF p[pair.request] # "" THEN p[pair.request]
    ELSE pair.limitDefault

\* request and limit of the four pairs fall back on each other
setResourceDefaults(p) ==
    [f \in ParamsFields |->
        IF \E pair \in ResourcePairs : f = pair.request
            THEN resolvedRequest(p, CHOOSE pair \in ResourcePairs : f = pair.request)
        ELSE IF \E pair \in ResourcePairs : f = pair.limit
            THEN resolvedLimit(p, CHOOSE pair \in ResourcePairs : f = pair.limit)
        ELSE p[f]]

\* the labels with the pipeline's labels merged into those given
setLabelDefaultsMerging(p, appLabel, estafetteLabels) ==
    LET labels == [k \in DOMAIN p["Labels"] \cup DOMAIN estafetteLabels |->
                      IF k \in DOMAIN p["Labels"] THEN p["Labels"][k] ELSE estafetteLabels[k]]
        withApp == [k \in DOMAIN labels \cup {"app"} |->
                        IF k = "app" THEN p["App"] ELSE labels[k]]
    IN  [p EXCEPT !["Labels"] = IF appLabel # "" THEN withApp ELSE labels]

\* the labels: the pipeline's when none are given, and the key app
\* overwritten with the application name when appLabel is given
setLabelDefaults(p, appLabel, estafetteLabels) ==
    LET labels == IF DOMAIN p["Labels"] = {} THEN estafetteLabels ELSE p["Labels"]
        withApp == [k \in DOMAIN labels \cup {"app"} |->
                        IF k = "app" THEN p["App"] ELSE labels[k]]
    IN  [p EXCEPT !["Labels"] = IF appLabel # "" THEN withApp ELSE labels]

\* Params.SetDefaults as main.go:119 calls it
SetDefaults(p, appLabel, buildVersion, releaseName, releaseAction, estafetteLabels) ==
    LET p1 == DefaultTo(p, "BuildVersion", buildVersion)
        p2 == DefaultTo(p1, "App", appLabel)
        p3 == DefaultTo(p2, "Container.ImageName", p2["App"])
        p4 == DefaultTo(p3, "Container.ImageTag", buildVersion)
        p5 == DefaultTo(p4, "Credentials", "gke-" \o releaseName)
        p6 == DefaultTo(p5, "Action", releaseAction)
        p7 == setLabelDefaults(p6, appLabel, estafetteLabels)
        p8 == setResourceDefaults(setConstantDefaults(p7))
    IN  DefaultTo(p8, "Container.Metrics.Port", p8["Container.Port"])

\* the fields that must not be empty
RequiredStrings ==
    {"App", "Namespace", "Credentials",
     "Container.ImageRepository", "Container.ImageName", "Container.ImageTag",
     "Container.CPU.Request", "Container.CPU.Limit",
     "Container.Memory.Request", "Container.Memory.Limit",
     "Container.LivenessProbe.Path", "Container.ReadinessProbe.Path",
     "Sidecar.Type", "Sidecar.Image",
     "Sidecar.CPU.Request", "Sidecar.CPU.Limit",
     "Sidecar.Memory.Request", "Sidecar.Memory.Limit",
     "Basepath", "RollingUpdate.MaxSurge", "RollingUpdate.MaxUnavailable"}

\* the fields that must be larger than zero
RequiredPositive ==
    {"Container.Port",
     "Autoscale.MinReplicas", "Autoscale.MaxReplicas", "Autoscale.CPUPercentage",
     "Container.LivenessProbe.InitialDelaySeconds", "Container.LivenessProbe.TimeoutSeconds",
     "Container.ReadinessProbe.TimeoutSeconds"}

ScrapeLiterals == {"true", "false"}

\* the rules on the metrics fields with path and port always required
metricsErrorsUnconditional(p) ==
    IF p["Container.Metrics.Scrape"] \notin ScrapeLiterals
        THEN {"Container.Metrics.Scrape"}
    ELSE {f \in {"Container.Metrics.Path", "Container.Metrics.Port"} : IsZero(p, f)}

\* the rules on the metrics fields: scrape is a boolean literal, and path
\* and port are required when it is true
metricsErrors(p) ==
    IF p["Container.Metrics.Scrape"] \notin ScrapeLiterals
        THEN {"Container.Metrics.Scrape"}
    ELSE IF p["Container.Metrics.Scrape"] = "true"
        THEN {f \in {"Container.Metrics.Path", "Container.Metrics.Port"} : IsZero(p, f)}
    ELSE {}

\* ValidateRequiredProperties without the rule on the hosts
ValidateRequiredPropertiesWithoutHosts(p) ==
    {f \in RequiredStrings \cup RequiredPositive : IsZero(p, f)}
        \cup (IF p["Visibility"] \in Visibilities THEN {} ELSE {"Visibility"})
        \cup metricsErrors(p)

\* Params.ValidateRequiredProperties: the fields whose rule is violated;
\* the first result of the Go function is that this set is empty
ValidateRequiredProperties(p) ==
    {f \in RequiredStrings \cup RequiredPositive \cup {"Hosts"} : IsZero(p, f)}
        \cup (IF p["Visibility"] \in Visibilities THEN {} ELSE {"Visibility"})
        \cup metricsErrors(p)

----------------------------------------------------------------------------
(* Initial state: main is about to resolve the credential (main.go:72)     *)

PriorStates ==
    {[tracks |-> T, cluster |-> PriorCluster(T, i), svc |-> t] :
        T \in SUBSET Tracks \ {{}}, i \in BOOLEAN, t \in ServiceTypes}
    \cup {[tracks |-> {}, cluster |-> {}, svc |-> ""]}

\* main.go:261-268 not reached: no process, no pipe
PipeIdle ==
    [main |-> "idle", c1 |-> "none", c2 |-> "none", left |-> 0,
     copy1 |-> "none", copy2 |-> "none", wClosed |-> FALSE]

\* no template list is being composed
CompositionIdle ==
    [stage |-> "idle", visibility |-> "", secrets |-> 0, files |-> 0,
     localManifests |-> << >>, templates |-> << >>, before |-> << >>, next |-> 0]

\* the first invocation
FirstPass == [n |-> 1, left |-> {}]

\* main is not in the layering of its params
LayeringIdle ==
    [stage |-> "idle", credential |-> << >>, selected |-> << >>, doc |-> << >>,
     args |-> << >>, params |-> << >>, renderedFileContent |-> "", errors |-> {},
     validated |-> << >>]

\* no Params value is being resolved
ResolutionIdle ==
    [stage |-> "idle", raw |-> << >>, args |-> << >>, p |-> << >>,
     defaulted |-> FALSE, errors |-> {}]

Init ==
    /\ pipe = PipeIdle
    /\ resolution = ResolutionIdle
    /\ composition = CompositionIdle
    /\ layering = LayeringIdle
    /\ passes = FirstPass
    /\ params \in InputParams
    /\ env \in EnvInputs
    /\ written = {}
    /\ tmpl = FALSE
    /\ pc = "credential"
    /\ ret = ""
    /\ todo = << >>
    /\ issued = << >>
    /\ serviceType = ""
    /\ assistTroubleshootingOnError = FALSE
    /\ paramsForTroubleshooting = EmptyParams
    /\ \E st \in PriorStates :
          prior = st.tracks /\ cluster = st.cluster /\ svc = st.svc
    /\ abnormal = FALSE

----------------------------------------------------------------------------
(* Running commands *)

\* runCommandExtended (main.go:364-372): command c runs and ends with exit
\* status 0 (ok) or not
runCommandExtended(c, ok) ==
    /\ issued' = Append(issued, [c |-> c, ok |-> ok])
    /\ cluster' = IF ok THEN ClusterAfter(c, params, cluster) ELSE cluster
    /\ svc' = IF ok THEN ServiceAfter(c, params, svc) ELSE svc
    /\ abnormal' = (abnormal \/ ok # Normal(c, cluster, svc))

\* handleError with the error only logged: main goes on at next
handleErrorContinuing(ok, next) ==
    pc' = next /\ ret' = ret

\* handleError (main.go:352-357): without an error main goes on at next, with
\* one assistTroubleshooting is called and log.Fatal follows
handleError(ok, next) ==
    IF ok
    THEN pc' = next /\ ret' = ret
    ELSE pc' = "assist" /\ ret' = "fatal"

\* runCommand (main.go:359-362)
runCommand(c, next) ==
    \E ok \in BOOLEAN :
        /\ runCommandExtended(c, ok)
        /\ handleError(ok, next)

----------------------------------------------------------------------------
(* main up to the first external command (main.go:72-174) *)

\* CredentialsParam.SetDefaults (main.go:80)
CredentialsParamSetDefaults(credentialsParam, releaseName) ==
    IF credentialsParam = "" THEN "gke-" \o releaseName ELSE credentialsParam

\* the credential reference that main.go:96 looks up
CredentialReference == CredentialsParamSetDefaults(env.credentialsParam, env.releaseName)

\* GetCredentialsByName (main.go:96): the index of the first credential of
\* that very name, 0 when there is none
GetCredentialsByName(credentials, name) ==
    IF \E i \in DOMAIN credentials : credentials[i].name = name
    THEN CHOOSE i \in DOMAIN credentials :
            /\ credentials[i].name = name
            /\ \A j \in 1..(i-1) : credentials[j].name # name
    ELSE 0

\* the Params value that the params of the model stand for: the fields the
\* model does not vary are those of validParams
FullParams(p) ==
    [validParams EXCEPT !["App"] = p.App,
                        !["Namespace"] = p.Namespace,
                        !["Action"] = p.Action,
                        !["Visibility"] = p.Visibility,
                        !["Credentials"] = CredentialReference]

\* ResolveParams with the result of the validation not looked at
ResolveParamsIgnoringErrors ==
    /\ pc = "params"
    /\ pc' = "templates"
    /\ UNCHANGED <<params, prior, otherVars, env, written, tmpl, ret, todo, serviceType, issued,
                   cluster, svc, abnormal,
                   assistTroubleshootingOnError, paramsForTroubleshooting>>

\* main.go:72-99: the credentials parameter is defaulted and validated, and
\* the credential of that name looked up; log.Fatal without it
ResolveCredential ==
    /\ pc = "credential"
    /\ pc' = IF /\ CredentialReference # ""
                /\ GetCredentialsByName(env.credentials, CredentialReference) # 0
             THEN "params" ELSE "fatal"
    /\ UNCHANGED <<params, prior, otherVars, env, written, tmpl, ret, todo, serviceType, issued,
                   cluster, svc, abnormal,
                   assistTroubleshootingOnError, paramsForTroubleshooting>>

\* main.go:101-125: params are resolved and validated; log.Fatal on an error
ResolveParams ==
    /\ pc = "params"
    /\ pc' = IF ValidateRequiredProperties(FullParams(params)) = {}
             THEN "templates" ELSE "fatal"
    /\ UNCHANGED <<params, prior, otherVars, env, written, tmpl, ret, todo, serviceType, issued,
                   cluster, svc, abnormal,
                   assistTroubleshootingOnError, paramsForTroubleshooting>>

\* main.go:127-151: the templates are built and, when there are any,
\* rendered and written to /kubernetes.yaml; log.Fatal when one of it fails
RenderManifest ==
    /\ pc = "templates"
    /\ \E ok \in BOOLEAN :
          /\ tmpl' = (ok /\ buildTemplates(params))
          /\ written' = IF tmpl' THEN written \cup {"/kubernetes.yaml"} ELSE written
          /\ pc' = IF ok THEN "keyfile" ELSE "fatal"
    /\ UNCHANGED <<params, prior, otherVars, env, ret, todo, serviceType, issued,
                   cluster, svc, abnormal,
                   assistTroubleshootingOnError, paramsForTroubleshooting>>

\* main.go:153-174: the key file of the credential is parsed and written
\* to /key-file.json; log.Fatal when one of it fails
StoreKeyFile ==
    /\ pc = "keyfile"
    /\ \E ok \in BOOLEAN :
          /\ written' = IF ok THEN written \cup {"/key-file.json"} ELSE written
          /\ pc' = IF ok THEN "auth" ELSE "fatal"
    /\ UNCHANGED <<params, prior, otherVars, env, tmpl, ret, todo, serviceType, issued,
                   cluster, svc, abnormal,
                   assistTroubleshootingOnError, paramsForTroubleshooting>>

----------------------------------------------------------------------------
(* main, from the first external command on (main.go:176-249) *)

GcloudAuth ==
    /\ pc = "auth"
    /\ runCommand(GcloudAuthCmd, "account")
    /\ UNCHANGED <<params, prior, otherVars, env, written, tmpl, todo, serviceType,
                   assistTroubleshootingOnError, paramsForTroubleshooting>>

GcloudSetAccount ==
    /\ pc = "account"
    /\ runCommand(GcloudSetAccountCmd, "project")
    /\ UNCHANGED <<params, prior, otherVars, env, written, tmpl, todo, serviceType,
                   assistTroubleshootingOnError, paramsForTroubleshooting>>

GcloudSetProject ==
    /\ pc = "project"
    /\ runCommand(GcloudSetProjectCmd, "getcreds")
    /\ UNCHANGED <<params, prior, otherVars, env, written, tmpl, todo, serviceType,
                   assistTroubleshootingOnError, paramsForTroubleshooting>>

\* main.go:184-194: log.Fatal for a credential without zone and region
GcloudGetCredentials ==
    /\ pc = "getcreds"
    /\ LET credential == env.credentials[GetCredentialsByName(env.credentials, CredentialReference)]
       IN  IF credential.zone # "" \/ credential.region # ""
           THEN runCommand(GcloudGetCredentialsCmd, "dryrun")
           ELSE pc' = "fatal" /\ UNCHANGED <<ret, issued, cluster, svc, abnormal>>
    /\ UNCHANGED <<params, prior, otherVars, env, written, tmpl, todo, serviceType,
                   assistTroubleshootingOnError, paramsForTroubleshooting>>

\* DryRunApply with the exit status of the dry run ignored
DryRunApplyIgnoringFailure ==
    /\ pc = "dryrun"
    /\ IF tmpl
       THEN /\ \E ok \in BOOLEAN : runCommandExtended(kubectlApplyDryRunArgs, ok)
            /\ pc' = "gate"
            /\ ret' = ret
       ELSE pc' = "gate" /\ UNCHANGED <<ret, issued, cluster, svc, abnormal>>
    /\ UNCHANGED <<params, prior, otherVars, env, written, tmpl, todo, serviceType,
                   assistTroubleshootingOnError, paramsForTroubleshooting>>

\* main.go:196-201
DryRunApply ==
    /\ pc = "dryrun"
    /\ IF tmpl
       THEN runCommand(kubectlApplyDryRunArgs, "gate")
       ELSE pc' = "gate" /\ UNCHANGED <<ret, issued, cluster, svc, abnormal>>
    /\ UNCHANGED <<params, prior, otherVars, env, written, tmpl, todo, serviceType,
                   assistTroubleshootingOnError, paramsForTroubleshooting>>

\* EnterMutatingMode without the test of params.DryRun
EnterMutatingModeUnconditionally ==
    /\ pc = "gate"
    /\ assistTroubleshootingOnError' = TRUE
    /\ paramsForTroubleshooting' = params
    /\ pc' = IF tmpl THEN "patch" ELSE "switch"
    /\ UNCHANGED <<params, prior, otherVars, env, written, tmpl, ret, todo, issued, serviceType, cluster, svc, abnormal>>

\* EnterMutatingMode without the test of tmpl
EnterMutatingModeAlwaysApplying ==
    /\ pc = "gate"
    /\ IF params.DryRun
       THEN /\ pc' = "done"
            /\ UNCHANGED <<assistTroubleshootingOnError, paramsForTroubleshooting>>
       ELSE /\ assistTroubleshootingOnError' = TRUE
            /\ paramsForTroubleshooting' = params
            /\ pc' = "patch"
    /\ UNCHANGED <<params, prior, otherVars, env, written, tmpl, ret, todo, issued, serviceType, cluster, svc, abnormal>>

\* main.go:203-209
EnterMutatingMode ==
    /\ pc = "gate"
    /\ IF params.DryRun
       THEN /\ pc' = "done"
            /\ UNCHANGED <<assistTroubleshootingOnError, paramsForTroubleshooting>>
       ELSE /\ assistTroubleshootingOnError' = TRUE
            /\ paramsForTroubleshooting' = params
            /\ pc' = IF tmpl THEN "patch" ELSE "switch"
    /\ UNCHANGED <<params, prior, otherVars, env, written, tmpl, ret, todo, issued, serviceType, cluster, svc, abnormal>>

\* patchServiceIfRequired, the lookup of the service type (main.go:319-324, 335-337)
GetServiceType ==
    /\ pc = "patch"
    /\ IF params.Visibility = "private"
       THEN \E ok \in BOOLEAN :
               /\ runCommandExtended(GetServiceCmd(params), ok)
               /\ serviceType' = IF ok THEN svc ELSE ""
               /\ pc' = IF serviceType' = "NodePort" \/ serviceType' = "LoadBalancer"
                        THEN "patch1" ELSE "apply"
       ELSE /\ pc' = "apply"
            /\ UNCHANGED <<issued, cluster, svc, abnormal, serviceType>>
    /\ UNCHANGED <<params, prior, otherVars, env, written, tmpl, ret, todo,
                   assistTroubleshootingOnError, paramsForTroubleshooting>>

\* patchServiceIfRequired, the first patch (main.go:328-329)
PatchServiceWithRanges ==
    /\ pc = "patch1"
    /\ \E ok \in BOOLEAN :
          /\ runCommandExtended(PatchWithRangesCmd(params), ok)
          /\ pc' = IF ok THEN "apply" ELSE "patch2"
    /\ UNCHANGED <<params, prior, otherVars, env, written, tmpl, ret, todo, serviceType,
                   assistTroubleshootingOnError, paramsForTroubleshooting>>

\* PatchServiceWithoutRanges without the log.Fatal of main.go:332-334
PatchServiceWithoutRangesIgnoringFailure ==
    /\ pc = "patch2"
    /\ \E ok \in BOOLEAN : runCommandExtended(PatchWithoutRangesCmd(params), ok)
    /\ pc' = "apply"
    /\ UNCHANGED <<params, prior, otherVars, env, written, tmpl, ret, todo, serviceType,
                   assistTroubleshootingOnError, paramsForTroubleshooting>>

\* patchServiceIfRequired, the second patch and log.Fatal (main.go:330-334)
PatchServiceWithoutRanges ==
    /\ pc = "patch2"
    /\ \E ok \in BOOLEAN :
          /\ runCommandExtended(PatchWithoutRangesCmd(params), ok)
          /\ pc' = IF ok THEN "apply" ELSE "fatal"
    /\ UNCHANGED <<params, prior, otherVars, env, written, tmpl, ret, todo, serviceType,
                   assistTroubleshootingOnError, paramsForTroubleshooting>>

\* main.go:212-213
ApplyManifests ==
    /\ pc = "apply"
    /\ runCommand(kubectlApplyArgs, "rollout")
    /\ UNCHANGED <<params, prior, otherVars, env, written, tmpl, todo, serviceType,
                   assistTroubleshootingOnError, paramsForTroubleshooting>>

\* WaitForRollout with the exit status of kubectl rollout status ignored
WaitForRolloutIgnoringFailure ==
    /\ pc = "rollout"
    /\ \E ok \in BOOLEAN : runCommandExtended(RolloutCmd(params), ok)
    /\ pc' = "switch"
    /\ ret' = ret
    /\ UNCHANGED <<params, prior, otherVars, env, written, tmpl, todo, serviceType,
                   assistTroubleshootingOnError, paramsForTroubleshooting>>

\* main.go:215-216
WaitForRollout ==
    /\ pc = "rollout"
    /\ runCommand(RolloutCmd(params), "switch")
    /\ UNCHANGED <<params, prior, otherVars, env, written, tmpl, todo, serviceType,
                   assistTroubleshootingOnError, paramsForTroubleshooting>>

\* main.go:220: the case of the switch is chosen
SwitchOnAction ==
    /\ pc = "switch"
    /\ todo' = SwitchCommands(params)
    /\ pc' = "cleanup"
    /\ UNCHANGED <<params, prior, otherVars, env, written, tmpl, ret, issued, serviceType, cluster, svc, abnormal,
                   assistTroubleshootingOnError, paramsForTroubleshooting>>

\* main.go:221-244: the next command of the chosen case
RunCleanupCommand ==
    /\ pc = "cleanup"
    /\ todo # << >>
    /\ runCommand(Head(todo), "cleanup")
    /\ todo' = Tail(todo)
    /\ UNCHANGED <<params, prior, otherVars, env, written, tmpl, serviceType,
                   assistTroubleshootingOnError, paramsForTroubleshooting>>

\* main.go:247: the case is finished, main calls assistTroubleshooting and returns
CleanupDone ==
    /\ pc = "cleanup"
    /\ todo = << >>
    /\ pc' = "assist"
    /\ ret' = "done"
    /\ UNCHANGED <<params, prior, otherVars, env, written, tmpl, todo, issued, serviceType, cluster, svc, abnormal,
                   assistTroubleshootingOnError, paramsForTroubleshooting>>

----------------------------------------------------------------------------
(* assistTroubleshooting (main.go:251-279) *)

\* AssistGetObjects without the test of assistTroubleshootingOnError
AssistGetObjectsUnguarded ==
    /\ pc = "assist"
    /\ \E ok \in BOOLEAN :
          runCommandExtended(GetObjectsCmd(paramsForTroubleshooting), ok)
    /\ pc' = "assist_logs"
    /\ UNCHANGED <<params, prior, otherVars, env, written, tmpl, ret, todo, serviceType,
                   assistTroubleshootingOnError, paramsForTroubleshooting>>

\* main.go:252-254
AssistGetObjects ==
    /\ pc = "assist"
    /\ IF assistTroubleshootingOnError
       THEN /\ \E ok \in BOOLEAN :
                  runCommandExtended(GetObjectsCmd(paramsForTroubleshooting), ok)
            /\ pc' = "assist_logs"
       ELSE /\ pc' = ret
            /\ UNCHANGED <<issued, cluster, svc, abnormal>>
    /\ UNCHANGED <<params, prior, otherVars, env, written, tmpl, ret, todo, serviceType,
                   assistTroubleshootingOnError, paramsForTroubleshooting>>

\* main.go:256-259
AssistCanaryLogs ==
    /\ pc = "assist_logs"
    /\ IF paramsForTroubleshooting.Action = "deploy-canary"
       THEN \E ok \in BOOLEAN :
               runCommandExtended(CanaryLogsCmd(paramsForTroubleshooting), ok)
       ELSE UNCHANGED <<issued, cluster, svc, abnormal>>
    /\ pc' = "assist_events"
    /\ UNCHANGED <<params, prior, otherVars, env, written, tmpl, ret, todo, serviceType,
                   assistTroubleshootingOnError, paramsForTroubleshooting>>

\* main.go:261-277: kubectl get events piped into grep.  The step either
\* returns to the caller, or never returns: c1.Wait() (main.go:275) waits for
\* the goroutine copying c1's output into w, and a Write to w only returns
\* once r was read, which nobody does when grep did not start or is gone
\* (see PipeSpec below: the outcomes are those of that machine)
AssistEvents ==
    /\ pc = "assist_events"
    /\ \E ok1, ok2, blocks \in BOOLEAN :
          /\ blocks => (~ok1 /\ ~ok2)
          /\ issued' = issued \o << [c |-> GetEventsCmd(paramsForTroubleshooting), ok |-> ok1],
                                    [c |-> GrepCmd(paramsForTroubleshooting), ok |-> ok2] >>
          /\ abnormal' = (abnormal \/ ~ok1 \/ ~ok2)
          /\ pc' = IF blocks THEN "blocked" ELSE ret
    /\ UNCHANGED <<params, prior, otherVars, env, written, tmpl, ret, todo, serviceType, cluster, svc,
                   assistTroubleshootingOnError, paramsForTroubleshooting>>

----------------------------------------------------------------------------

Next ==
    \/ ResolveCredential
    \/ ResolveParams
    \/ RenderManifest
    \/ StoreKeyFile
    \/ GcloudAuth
    \/ GcloudSetAccount
    \/ GcloudSetProject
    \/ GcloudGetCredentials
    \/ DryRunApply
    \/ EnterMutatingMode
    \/ GetServiceType
    \/ PatchServiceWithRanges
    \/ PatchServiceWithoutRanges
    \/ ApplyManifests
    \/ WaitForRollout
    \/ SwitchOnAction
    \/ RunCleanupCommand
    \/ CleanupDone
    \/ AssistGetObjects
    \/ AssistCanaryLogs
    \/ AssistEvents

Spec == Init /\ [][Next]_vars

----------------------------------------------------------------------------
(* The pipe of assistTroubleshooting (main.go:261-277), step by step.      *)
(* c1 is kubectl get events, c2 is grep; c1.Stdout is w and c2.Stdin is r  *)
(* of one io.Pipe(), so that os/exec copies c1's output into w in one      *)
(* goroutine (copy1) and r into c2's input in another (copy2).  Both       *)
(* goroutines exist only when their process started.  w.Write returns     *)
(* only when a Read of r took the data.                                    *)

PipeStates ==
    [main : {"start1"}, c1 : {"none"}, c2 : {"none"}, left : 0..MaxOutput,
     copy1 : {"none"}, copy2 : {"none"}, wClosed : {FALSE}]

\* the state of main at main.go:261, with mutating mode entered
PipeInit ==
    /\ pipe \in PipeStates
    /\ resolution = ResolutionIdle
    /\ composition = CompositionIdle
    /\ layering = LayeringIdle
    /\ passes = FirstPass
    /\ params = [App |-> AppName, Namespace |-> AppNamespace, Action |-> "deploy-simple",
                 Visibility |-> "private", DryRun |-> FALSE, Files |-> 0, Keys |-> 0]
    /\ env = [credentialsParam |-> "gke-production", releaseName |-> "production",
              credentials |-> << Credential("gke-production", "europe-west1-c") >>]
    /\ written = {"/kubernetes.yaml", "/key-file.json"}
    /\ tmpl = buildTemplates(params)
    /\ pc = "assist_events"
    /\ ret = "fatal"
    /\ todo = << >>
    /\ issued = << >>
    /\ serviceType = ""
    /\ assistTroubleshootingOnError = TRUE
    /\ paramsForTroubleshooting = params
    /\ prior = {}
    /\ cluster = {}
    /\ svc = ""
    /\ abnormal = TRUE

\* c1.Start() (main.go:273), its error ignored
c1Start ==
    /\ pipe.main = "start1"
    /\ \E ok \in BOOLEAN :
          pipe' = [pipe EXCEPT !.main = "start2",
                               !.c1 = IF ok THEN "running" ELSE "failed",
                               !.copy1 = IF ok THEN "idle" ELSE "none"]
    /\ UNCHANGED <<mainVars, resolution, composition, layering, passes>>

\* c2.Start() (main.go:274), its error ignored
c2Start ==
    /\ pipe.main = "start2"
    /\ \E ok \in BOOLEAN :
          pipe' = [pipe EXCEPT !.main = "wait1",
                               !.c2 = IF ok THEN "running" ELSE "failed",
                               !.copy2 = IF ok THEN "reading" ELSE "none"]
    /\ UNCHANGED <<mainVars, resolution, composition, layering, passes>>

\* kubectl writes a chunk, which copy1 reads and starts to Write to w
c1Emit ==
    /\ pipe.c1 = "running" /\ pipe.left > 0 /\ pipe.copy1 = "idle"
    /\ pipe' = [pipe EXCEPT !.left = @ - 1, !.copy1 = "writing"]
    /\ UNCHANGED <<mainVars, resolution, composition, layering, passes>>

\* kubectl has written all its output and exits
c1Exit ==
    /\ pipe.c1 = "running" /\ pipe.left = 0
    /\ pipe' = [pipe EXCEPT !.c1 = "exited"]
    /\ UNCHANGED <<mainVars, resolution, composition, layering, passes>>

\* copy1 reads end-of-file from the exited kubectl and ends
copy1Eof ==
    /\ pipe.copy1 = "idle" /\ pipe.c1 = "exited"
    /\ pipe' = [pipe EXCEPT !.copy1 = "done"]
    /\ UNCHANGED <<mainVars, resolution, composition, layering, passes>>

\* the Write of copy1 to w meets the Read of copy2 from r
pipeTransfer ==
    /\ pipe.copy1 = "writing" /\ pipe.copy2 = "reading"
    /\ pipe' = [pipe EXCEPT !.copy1 = "idle", !.copy2 = "forwarding"]
    /\ UNCHANGED <<mainVars, resolution, composition, layering, passes>>

\* copy2 writes what it read to grep's input: grep takes it, or is gone and
\* the write fails, which ends copy2
copy2Forward ==
    /\ pipe.copy2 = "forwarding"
    /\ pipe' = [pipe EXCEPT !.copy2 = IF pipe.c2 = "running" THEN "reading" ELSE "done"]
    /\ UNCHANGED <<mainVars, resolution, composition, layering, passes>>

\* copy2 reads end-of-file from r once w is closed, and closes grep's input
copy2Eof ==
    /\ pipe.copy2 = "reading" /\ pipe.wClosed /\ pipe.copy1 # "writing"
    /\ pipe' = [pipe EXCEPT !.copy2 = "done"]
    /\ UNCHANGED <<mainVars, resolution, composition, layering, passes>>

\* grep reads end-of-file and exits
c2Exit ==
    /\ pipe.c2 = "running" /\ pipe.copy2 = "done"
    /\ pipe' = [pipe EXCEPT !.c2 = "exited"]
    /\ UNCHANGED <<mainVars, resolution, composition, layering, passes>>

\* grep exits without draining its input
c2ExitEarly ==
    /\ pipe.c2 = "running" /\ pipe.copy2 # "done"
    /\ pipe' = [pipe EXCEPT !.c2 = "exited"]
    /\ UNCHANGED <<mainVars, resolution, composition, layering, passes>>

\* c1.Wait() (main.go:275) returns at once for a process that did not start,
\* and else once the process exited and copy1 ended
c1Wait ==
    /\ pipe.main = "wait1"
    /\ \/ pipe.c1 = "failed"
       \/ pipe.c1 = "exited" /\ pipe.copy1 = "done"
    /\ pipe' = [pipe EXCEPT !.main = "close"]
    /\ UNCHANGED <<mainVars, resolution, composition, layering, passes>>

\* w.Close() (main.go:276)
wClose ==
    /\ pipe.main = "close"
    /\ pipe' = [pipe EXCEPT !.main = "wait2", !.wClosed = TRUE]
    /\ UNCHANGED <<mainVars, resolution, composition, layering, passes>>

\* c2.Wait() (main.go:277), as c1.Wait()
c2Wait ==
    /\ pipe.main = "wait2"
    /\ \/ pipe.c2 = "failed"
       \/ pipe.c2 = "exited" /\ pipe.copy2 = "done"
    /\ pipe' = [pipe EXCEPT !.main = "copy"]
    /\ UNCHANGED <<mainVars, resolution, composition, layering, passes>>

\* io.Copy(os.Stdout, &b2) (main.go:278) and the return of assistTroubleshooting
pipeReturn ==
    /\ pipe.main = "copy"
    /\ pipe' = [pipe EXCEPT !.main = "returned"]
    /\ UNCHANGED <<mainVars, resolution, composition, layering, passes>>

PipeNext ==
    \/ c1Start
    \/ c2Start
    \/ c1Emit
    \/ c1Exit
    \/ copy1Eof
    \/ pipeTransfer
    \/ copy2Forward
    \/ copy2Eof
    \/ c2Exit
    \/ c2ExitEarly
    \/ c1Wait
    \/ wClose
    \/ c2Wait
    \/ pipeReturn

PipeSpec == PipeInit /\ [][PipeNext]_vars

----------------------------------------------------------------------------
(* SetDefaults and ValidateRequiredProperties applied to Params values:    *)
(* Params{} and validParams after up to MaxChanged changes.                *)

\* the values a changed field takes: the zero value in validParams, a value
\* that is not the default in Params{}, and the literals that are not in
\* the enumeration
ChangedValues(base, f) ==
    (CASE f = "Visibility" -> {"", "public", "iap", "everywhere", "Private"}
       [] f = "Container.Metrics.Scrape" -> {"", "false", "yessir", "True"}
       [] f = "Labels" -> {<< >>, [team |-> "yourteam"], [app |-> "yourapp", team |-> "yourteam"]}
       [] f = "Hosts" -> {<< >>, << "gke.estafette.io" >>}
       [] f = "TrustedIPRanges" -> {<< >>, << "0.0.0.0/0" >>}
       [] f \in {pair.request : pair \in ResourcePairs} -> {"", "250m"}
       [] f \in {pair.limit : pair \in ResourcePairs} -> {"", "300m"}
       [] f \in IntFields -> {0, 120}
       [] OTHER -> {"", "yourapp"})
    \ {base[f]}

\* a change of one field, of both fields of a request/limit pair, or of
\* the metrics fields together: a function from the changed fields to
\* their new values
ParamsChanges(base) ==
    UNION {{f :> v : v \in ChangedValues(base, f)} : f \in ParamsFields}
    \cup {pair.request :> a @@ pair.limit :> b :
             pair \in ResourcePairs, a \in {"", "250m"}, b \in {"", "300m"}}
    \cup {"Container.Metrics.Scrape" :> s @@ "Container.Metrics.Path" :> path
             @@ "Container.Metrics.Port" :> port :
             s \in ScrapeLiterals, path \in {"", "/metrics"}, port \in {0, 5000}}

\* p after a change
Changed(p, change) ==
    [f \in ParamsFields |-> IF f \in DOMAIN change THEN change[f] ELSE p[f]]

\* base with up to k changes
RECURSIVE ParamsVariants(_, _)
ParamsVariants(base, k) ==
    IF k = 0 THEN {base}
    ELSE LET less == ParamsVariants(base, k - 1)
         IN  less \cup {Changed(p, change) : p \in less, change \in ParamsChanges(base)}

\* arguments of SetDefaults: the flags of main.go:33-36 and the labels of
\* main.go:60-70: all absent, all present, the labels alone, and an app
\* label that is not the label app
SetDefaultsArgs ==
    { [appLabel |-> "", buildVersion |-> "", releaseName |-> "", releaseAction |-> "",
       estafetteLabels |-> << >>],
      [appLabel |-> "myapp", buildVersion |-> "1.0.0", releaseName |-> "production",
       releaseAction |-> "deploy-canary",
       estafetteLabels |-> [app |-> "myapp", team |-> "myteam", language |-> "golang"]],
      [appLabel |-> "", buildVersion |-> "", releaseName |-> "", releaseAction |-> "",
       estafetteLabels |-> [app |-> "myapp", team |-> "myteam", language |-> "golang"]],
      [appLabel |-> "yourapp", buildVersion |-> "", releaseName |-> "", releaseAction |-> "",
       estafetteLabels |-> [app |-> "myapp", team |-> "myteam", language |-> "golang"]] }

ResolveInit ==
    /\ \E base \in {ZeroParams, validParams} :
       \E raw \in ParamsVariants(base, MaxChanged) :
       \E args \in SetDefaultsArgs :
          resolution = [stage |-> "raw", raw |-> raw, args |-> args, p |-> raw,
                        defaulted |-> FALSE, errors |-> {}]
    /\ pipe = PipeIdle
    /\ composition = CompositionIdle
    /\ layering = LayeringIdle
    /\ passes = FirstPass
    /\ params = EmptyParams
    /\ env = [credentialsParam |-> "", releaseName |-> "", credentials |-> << >>]
    /\ written = {}
    /\ tmpl = FALSE
    /\ pc = "params"
    /\ ret = ""
    /\ todo = << >>
    /\ issued = << >>
    /\ serviceType = ""
    /\ assistTroubleshootingOnError = FALSE
    /\ paramsForTroubleshooting = EmptyParams
    /\ prior = {}
    /\ cluster = {}
    /\ svc = ""
    /\ abnormal = FALSE

\* params.SetDefaults(...) (main.go:119)
ResolveSetDefaults ==
    /\ resolution.stage = "raw"
    /\ resolution' =
          [resolution EXCEPT
              !.stage = "defaulted",
              !.defaulted = TRUE,
              !.p = SetDefaults(resolution.raw, resolution.args.appLabel,
                                resolution.args.buildVersion, resolution.args.releaseName,
                                resolution.args.releaseAction, resolution.args.estafetteLabels)]
    /\ UNCHANGED <<mainVars, pipe, composition, layering, passes>>

\* params.ValidateRequiredProperties() (main.go:122), on the value SetDefaults
\* returned or, as the tests do, on the value as given
ResolveValidate ==
    /\ resolution.stage \in {"raw", "defaulted"}
    /\ resolution' = [resolution EXCEPT !.stage = "validated",
                                        !.errors = ValidateRequiredProperties(resolution.p)]
    /\ UNCHANGED <<mainVars, pipe, composition, layering, passes>>

ResolveNext ==
    \/ ResolveSetDefaults
    \/ ResolveValidate

ResolveSpec == ResolveInit /\ [][ResolveNext]_vars

----------------------------------------------------------------------------
(* The invocation repeated: after a deploy-simple or deploy-stable that    *)
(* ended normally on a healthy cluster, main runs once more with the same  *)
(* parameters on the cluster as the first invocation left it.              *)

RepeatInvocation ==
    /\ pc = "done"
    /\ passes.n = 1
    /\ ~params.DryRun
    /\ params.Action \in {"deploy-simple", "deploy-stable"}
    /\ ~abnormal
    /\ passes' = [n |-> 2, left |-> cluster]
    /\ pc' = "credential"
    /\ ret' = ""
    /\ todo' = << >>
    /\ issued' = << >>
    /\ serviceType' = ""
    /\ assistTroubleshootingOnError' = FALSE
    /\ paramsForTroubleshooting' = EmptyParams
    /\ written' = {}
    /\ tmpl' = FALSE
    /\ UNCHANGED <<params, env, prior, cluster, svc, abnormal, pipe, resolution, composition,
                   layering>>

RepeatNext ==
    \/ Next
    \/ RepeatInvocation

RepeatSpec == Init /\ [][RepeatNext]_vars

----------------------------------------------------------------------------
(* getTemplates: the ordered list of the templates to render.  A template  *)
(* is a path, a sequence of path segments; its base filename is the last   *)
(* segment.                                                                *)

\* filepath.Base
Base(path) == path[Len(path)]

\* /templates/<filename>
Template(filename) == << "", "templates", filename >>

\* the templates every manifest is made of
BaseTemplates ==
    << Template("service.yaml"), Template("deployment.yaml"), Template("rolebinding.yaml") >>

IngressTemplate == Template("ingress.yaml")

SecretsTemplate == Template("application-secrets.yaml")

ConfigsTemplate == Template("configmap.yaml")

\* the selection without the ingress template
selectTemplatesWithoutIngress(visibility, secrets, files) ==
    BaseTemplates
        \o (IF secrets > 0 THEN << SecretsTemplate >> ELSE << >>)
        \o (IF files > 0 THEN << ConfigsTemplate >> ELSE << >>)

\* the base list and the conditional additions
selectTemplates(visibility, secrets, files) ==
    BaseTemplates
        \o (IF visibility \in {"private", "iap"} THEN << IngressTemplate >> ELSE << >>)
        \o (IF secrets > 0 THEN << SecretsTemplate >> ELSE << >>)
        \o (IF files > 0 THEN << ConfigsTemplate >> ELSE << >>)

\* the override pass for one local manifest, always appending
overrideWithByAppending(templates, manifest) == Append(templates, manifest)

\* the override pass for one local manifest: it takes the place of the
\* first template of its base filename, and is appended when there is none
overrideWith(templates, manifest) ==
    IF \E i \in DOMAIN templates : Base(templates[i]) = Base(manifest)
    THEN LET i == CHOOSE i \in DOMAIN templates :
                     /\ Base(templates[i]) = Base(manifest)
                     /\ \A j \in 1..(i-1) : Base(templates[j]) # Base(manifest)
         IN  [templates EXCEPT ![i] = manifest]
    ELSE Append(templates, manifest)

RECURSIVE overrideWithAll(_, _)
overrideWithAll(templates, manifests) ==
    IF manifests = << >> THEN templates
    ELSE overrideWithAll(overrideWith(templates, Head(manifests)), Tail(manifests))

\* getTemplates(params)
getTemplates(visibility, secrets, files, localManifests) ==
    overrideWithAll(selectTemplates(visibility, secrets, files), localManifests)

\* the local manifests of the inputs: one that names no template, two of
\* the base filename of a template that is always there, and one for each
\* conditional template
LocalManifestPaths ==
    { << ".", "gke", "another-ingress.yaml" >>,
      << ".", "gke", "service.yaml" >>,
      << ".", "other", "service.yaml" >>,
      << ".", "gke", "ingress.yaml" >>,
      << ".", "gke", "application-secrets.yaml" >> }

LocalManifestLists ==
    UNION {[1..n -> LocalManifestPaths] : n \in 0..MaxLocalManifests}

ComposeInit ==
    /\ \E v \in Visibilities, k \in 0..MaxKeys, f \in 0..MaxFiles, l \in LocalManifestLists :
          composition = [stage |-> "called", visibility |-> v, secrets |-> k, files |-> f,
                         localManifests |-> l, templates |-> << >>, before |-> << >>,
                         next |-> 0]
    /\ layering = LayeringIdle
    /\ passes = FirstPass
    /\ pipe = PipeIdle
    /\ resolution = ResolutionIdle
    /\ params = EmptyParams
    /\ env = [credentialsParam |-> "", releaseName |-> "", credentials |-> << >>]
    /\ written = {}
    /\ tmpl = FALSE
    /\ pc = "templates"
    /\ ret = ""
    /\ todo = << >>
    /\ issued = << >>
    /\ serviceType = ""
    /\ assistTroubleshootingOnError = FALSE
    /\ paramsForTroubleshooting = EmptyParams
    /\ prior = {}
    /\ cluster = {}
    /\ svc = ""
    /\ abnormal = FALSE

\* getTemplates, the base list and the conditional additions
ComposeSelect ==
    /\ composition.stage = "called"
    /\ composition' =
          [composition EXCEPT
              !.stage = "selected",
              !.templates = selectTemplates(composition.visibility, composition.secrets,
                                            composition.files),
              !.next = 1]
    /\ UNCHANGED <<mainVars, pipe, resolution, layering, passes>>

\* getTemplates, the override pass for the next local manifest
ComposeOverride ==
    /\ composition.stage \in {"selected", "overridden"}
    /\ composition.next <= Len(composition.localManifests)
    /\ composition' =
          [composition EXCEPT
              !.stage = "overridden",
              !.before = composition.templates,
              !.templates = overrideWith(composition.templates,
                                         composition.localManifests[composition.next]),
              !.next = @ + 1]
    /\ UNCHANGED <<mainVars, pipe, resolution, layering, passes>>

\* getTemplates returns
ComposeReturn ==
    /\ composition.stage \in {"selected", "overridden"}
    /\ composition.next > Len(composition.localManifests)
    /\ composition' = [composition EXCEPT !.stage = "returned"]
    /\ UNCHANGED <<mainVars, pipe, resolution, layering, passes>>

ComposeNext ==
    \/ ComposeSelect
    \/ ComposeOverride
    \/ ComposeReturn

ComposeSpec == ComposeInit /\ [][ComposeNext]_vars

----------------------------------------------------------------------------
(* The params of main from the selected credential to the rendering of the *)
(* config files (main.go:95-134): the defaults embedded in the credential, *)
(* the parameters unmarshalled over them, SetDefaults, validation.         *)

\* p with the fields of S only
Restrict(p, S) == [f \in S |-> p[f]]

\* the values a JSON document can give a field, its zero value included
JsonValues(f) == ChangedValues(ZeroParams, f) \cup {ZeroValue(f)}

\* the document that sets what validParams sets
ValidDocument == Restrict(validParams, {f \in ParamsFields : ~IsZero(validParams, f)})

\* the document with the field g of value v
WithField(doc, g, v) == [f \in DOMAIN doc \cup {g} |-> IF f = g THEN v ELSE doc[f]]

\* the parameters as JSON (main.go:37): the fields the document names, with
\* their values.  The empty document, the valid one, and each of them with
\* one field more, less or different.
ParamsDocuments ==
    UNION {{base}
           \cup UNION {{WithField(base, g, v) : v \in JsonValues(g)} : g \in ParamsFields}
           \cup {Restrict(base, DOMAIN base \ {g}) : g \in DOMAIN base} :
           base \in {Restrict(ZeroParams, {}), ValidDocument}}

\* the selected credential (main.go:96): whether it embeds defaults
\* (AdditionalProperties.Defaults is not nil), the defaults, its default
\* namespace and its project
GKECredentials ==
    { [DefaultsSet |-> FALSE, Defaults |-> ZeroParams,
       DefaultNamespace |-> "mynamespace", Project |-> "myproject"],
      [DefaultsSet |-> FALSE, Defaults |-> ZeroParams,
       DefaultNamespace |-> "", Project |-> ""],
      [DefaultsSet |-> TRUE,
       Defaults |-> Changed(ZeroParams,
                            "Visibility" :> "public"
                            @@ "Autoscale.MinReplicas" :> 5
                            @@ "Labels" :> [env |-> "prod"]
                            @@ "Hosts" :> << "default.estafette.io" >>),
       DefaultNamespace |-> "mynamespace", Project |-> "myproject"],
      [DefaultsSet |-> TRUE,
       Defaults |-> Changed(ZeroParams,
                            "Namespace" :> "defaultnamespace"
                            @@ "Container.ImageRepository" :> "defaultrepository"
                            @@ "Container.CPU.Limit" :> "500m"
                            @@ "Sidecar.Type" :> "istio"),
       DefaultNamespace |-> "mynamespace", Project |-> "myproject"] }

\* json.Unmarshal into a params that is emptied first
UnmarshalWholeObject(doc, p) ==
    [f \in ParamsFields |-> IF f \in DOMAIN doc THEN doc[f] ELSE ZeroValue(f)]

\* json.Unmarshal(paramsJSON, &params) (main.go:114): a field the document
\* names takes the document's value, a map keeps the entries it has and
\* takes the document's, a field the document does not name is left alone
Unmarshal(doc, p) ==
    [f \in ParamsFields |->
        IF f \notin DOMAIN doc THEN p[f]
        ELSE IF f \in MapFields
             THEN [k \in DOMAIN doc[f] \cup DOMAIN p[f] |->
                      IF k \in DOMAIN doc[f] THEN doc[f][k] ELSE p[f][k]]
             ELSE doc[f]]

\* what json.Unmarshal leaves of the credential's defaults, of which
\* params is a shallow copy (main.go:109): the maps and the arrays of the
\* lists are those of params, so the entries written into a map that is
\* not nil and the elements written into a list show in the defaults
DefaultsAfterUnmarshal(doc, defaults) ==
    [f \in ParamsFields |->
        IF f \notin DOMAIN doc THEN defaults[f]
        ELSE IF f \in MapFields
             THEN IF DOMAIN defaults[f] = {} THEN defaults[f]
                  ELSE [k \in DOMAIN doc[f] \cup DOMAIN defaults[f] |->
                           IF k \in DOMAIN doc[f] THEN doc[f][k] ELSE defaults[f][k]]
        ELSE IF f \in ListFields
             THEN [i \in DOMAIN defaults[f] |->
                      IF i \in DOMAIN doc[f] THEN doc[f][i] ELSE defaults[f][i]]
             ELSE defaults[f]]

\* what renderConfig can return
RenderedConfigs == {"", "rendered"}

LayerInit ==
    /\ \E credential \in GKECredentials, doc \in ParamsDocuments, args \in SetDefaultsArgs :
          layering = [stage |-> "selected", credential |-> credential,
                      selected |-> credential, doc |-> doc, args |-> args,
                      params |-> ZeroParams, renderedFileContent |-> "", errors |-> {},
                      validated |-> ZeroParams]
    /\ composition = CompositionIdle
    /\ passes = FirstPass
    /\ pipe = PipeIdle
    /\ resolution = ResolutionIdle
    /\ params = EmptyParams
    /\ env = [credentialsParam |-> "", releaseName |-> "", credentials |-> << >>]
    /\ written = {}
    /\ tmpl = FALSE
    /\ pc = "params"
    /\ ret = ""
    /\ todo = << >>
    /\ issued = << >>
    /\ serviceType = ""
    /\ assistTroubleshootingOnError = FALSE
    /\ paramsForTroubleshooting = EmptyParams
    /\ prior = {}
    /\ cluster = {}
    /\ svc = ""
    /\ abnormal = FALSE

\* main.go:101-110: var params Params, and the credential's defaults when
\* it has some
LayerUseDefaults ==
    /\ layering.stage = "selected"
    /\ layering' =
          [layering EXCEPT
              !.stage = "based",
              !.params = IF layering.credential.DefaultsSet
                         THEN layering.credential.Defaults ELSE ZeroParams]
    /\ UNCHANGED <<mainVars, pipe, resolution, composition, passes>>

\* main.go:112-116: the parameters are unmarshalled into params
LayerUnmarshal ==
    /\ layering.stage = "based"
    /\ layering' =
          [layering EXCEPT
              !.stage = "unmarshalled",
              !.params = Unmarshal(layering.doc, layering.params),
              !.credential.Defaults =
                  IF layering.credential.DefaultsSet
                  THEN DefaultsAfterUnmarshal(layering.doc, layering.credential.Defaults)
                  ELSE layering.credential.Defaults]
    /\ UNCHANGED <<mainVars, pipe, resolution, composition, passes>>

\* main.go:118-119: params.SetDefaults(...)
LayerSetDefaults ==
    /\ layering.stage = "unmarshalled"
    /\ layering' =
          [layering EXCEPT
              !.stage = "defaulted",
              !.params = SetDefaults(layering.params, layering.args.appLabel,
                                     layering.args.buildVersion, layering.args.releaseName,
                                     layering.args.releaseAction,
                                     layering.args.estafetteLabels)]
    /\ UNCHANGED <<mainVars, pipe, resolution, composition, passes>>

\* main.go:121-125: params.ValidateRequiredProperties(), log.Fatal on an error
LayerValidate ==
    /\ layering.stage = "defaulted"
    /\ layering' =
          [layering EXCEPT
              !.errors = ValidateRequiredProperties(layering.params),
              !.stage = IF ValidateRequiredProperties(layering.params) = {}
                        THEN "validated" ELSE "fatal",
              !.validated = layering.params]
    /\ UNCHANGED <<mainVars, pipe, resolution, composition, passes>>

\* main.go:127-134: the templates are built, log.Fatal when that fails, and
\* the config files rendered into params.Configs.RenderedFileContent
LayerRenderConfig ==
    /\ layering.stage = "validated"
    /\ \E ok \in BOOLEAN, content \in RenderedConfigs :
          layering' =
              IF ok
              THEN [layering EXCEPT !.stage = "rendered", !.renderedFileContent = content]
              ELSE [layering EXCEPT !.stage = "fatal"]
    /\ UNCHANGED <<mainVars, pipe, resolution, composition, passes>>

LayerNext ==
    \/ LayerUseDefaults
    \/ LayerUnmarshal
    \/ LayerSetDefaults
    \/ LayerValidate
    \/ LayerRenderConfig

LayerSpec == LayerInit /\ [][LayerNext]_vars

----------------------------------------------------------------------------
(* Vocabulary of the properties *)

Issued == 1..Len(issued)

DryRunPassed == [c |-> kubectlApplyDryRunArgs, ok |-> TRUE]

DryRunFailed == [c |-> kubectlApplyDryRunArgs, ok |-> FALSE]

\* a command that changes the cluster or waits for such a change: service
\* patch, real apply, rollout wait, scale, delete, annotate
IsMutation(c) ==
    /\ c.bin = "kubectl"
    /\ \/ c.verb \in {"patch", "rollout-status", "scale", "delete", "annotate"}
       \/ c.verb = "apply" /\ c.opt # "--dry-run"

\* a command of the action-specific step
IsScaleOrCleanup(c) ==
    c.bin = "kubectl" /\ c.verb \in {"scale", "delete", "annotate"}

\* a command of the diagnostics collector
IsDiagnostic(c) ==
    \/ c.bin = "grep"
    \/ c.bin = "kubectl" /\ c.verb = "logs"
    \/ c.bin = "kubectl" /\ c.verb = "get" /\ c.kind # "service"

NoMutationIssued == \A i \in Issued : ~IsMutation(issued[i].c)

\* the process is about to end, or has ended, with log.Fatal
Aborting == (pc = "assist" /\ ret = "fatal") \/ (pc \in {"assist_logs", "assist_events"} /\ ret = "fatal") \/ pc = "fatal"

----------------------------------------------------------------------------
(* C1: when a template set was rendered, every mutating command is        *)
(* preceded by a successful kubectl apply --dry-run of the manifest, and a *)
(* failed dry run aborts the process with no mutating command issued.      *)
C1_DryRunGateOrdering ==
    tmpl =>
        /\ \A i \in Issued :
              IsMutation(issued[i].c) => \E j \in 1..(i-1) : issued[j] = DryRunPassed
        /\ (\E j \in Issued : issued[j] = DryRunFailed) =>
              NoMutationIssued /\ Aborting

C1_Witness ==
    /\ tmpl
    /\ \E i \in Issued : issued[i].c = kubectlApplyArgs
    /\ \E i \in Issued : issued[i].c.verb = "delete"

(* C2: with params.DryRun set no mutating command is ever issued, whatever *)
(* the action and the visibility; the process stops after the dry run.     *)
C2_DryRunFlag ==
    params.DryRun =>
        /\ NoMutationIssued
        /\ ~assistTroubleshootingOnError
        /\ \A i \in Issued : issued[i].c = kubectlApplyDryRunArgs => i = Len(issued)
        /\ pc \in {"credential", "params", "templates", "keyfile",
                   "auth", "account", "project", "getcreds", "dryrun", "gate",
                   "assist", "done", "fatal"}

C2_Witness ==
    /\ params.DryRun
    /\ pc = "done"
    /\ issued # << >>
    /\ issued[Len(issued)] = DryRunPassed

ApplyPassed == [c |-> kubectlApplyArgs, ok |-> TRUE]

RolloutPassed == [c |-> RolloutCmd(params), ok |-> TRUE]

(* C3, as stated: in a run that is not a dry run no mutating command       *)
(* precedes the real manifest apply, and no scale or cleanup command       *)
(* precedes a successful rollout wait.                                     *)
C3_FixedMutationOrder ==
    ~params.DryRun =>
        \A i \in Issued :
            /\ (IsMutation(issued[i].c) /\ issued[i].c # kubectlApplyArgs) =>
                   \E j \in 1..(i-1) : issued[j].c = kubectlApplyArgs
            /\ IsScaleOrCleanup(issued[i].c) =>
                   \E j \in 1..(i-1) : issued[j] = RolloutPassed

(* C3, amended: when a manifest was rendered, the only mutating commands   *)
(* that precede the real apply are the service patches, the rollout wait   *)
(* follows a successful apply and every scale or cleanup command follows a *)
(* successful rollout wait; when none was rendered, the scale and cleanup  *)
(* commands are the only mutating commands, with no apply or rollout wait. *)
C3_MutationOrderAmended ==
    ~params.DryRun =>
        \A i \in Issued :
            IF tmpl
            THEN /\ issued[i].c.verb = "patch" =>
                        \A j \in 1..(i-1) : ~IsMutation(issued[j].c) \/ issued[j].c.verb = "patch"
                 /\ issued[i].c = kubectlApplyArgs =>
                        \A j \in 1..(i-1) : ~IsMutation(issued[j].c) \/ issued[j].c.verb = "patch"
                 /\ issued[i].c.verb = "rollout-status" =>
                        /\ i > 1
                        /\ issued[i-1] = ApplyPassed
                 /\ IsScaleOrCleanup(issued[i].c) =>
                        \E j \in 1..(i-1) :
                            /\ issued[j] = RolloutPassed
                            /\ \A k \in (j+1)..(i-1) : IsScaleOrCleanup(issued[k].c) /\ issued[k].ok
            ELSE IsMutation(issued[i].c) => IsScaleOrCleanup(issued[i].c)

C3_Witness ==
    /\ ~params.DryRun
    /\ pc = "done"
    /\ \E i, j, k, l \in Issued :
          /\ i < j /\ j < k /\ k < l
          /\ issued[i].c.verb = "patch"
          /\ issued[j] = ApplyPassed
          /\ issued[k] = RolloutPassed
          /\ issued[l].c.verb = "annotate"

\* the successful run of the whole switch: main reached line 247
SwitchCompleted == ~params.DryRun /\ ret = "done"

\* kind and name of the objects a delete command was issued for
DeleteTargets == {<<issued[i].c.kind, issued[i].c.name>> : i \in {k \in Issued : issued[k].c.verb = "delete"}}

\* name and replicas option of the scale commands issued
ScaleTargets == {<<issued[i].c.name, issued[i].c.opt>> : i \in {k \in Issued : issued[k].c.verb = "scale"}}

AllDeletesIgnoreNotFound ==
    \A i \in Issued : issued[i].c.verb = "delete" => issued[i].c.opt = "--ignore-not-found=true"

\* every delete was issued after a scale command that succeeded
DeletesFollowScale ==
    \A i \in Issued : issued[i].c.verb = "delete" =>
        \E j \in 1..(i-1) : issued[j].c.verb = "scale" /\ issued[j].ok

\* every scale command was issued after the apply and the rollout wait succeeded
ScaleFollowsRollout ==
    \A i \in Issued : issued[i].c.verb = "scale" =>
        \E j, k \in 1..(i-1) : j < k /\ issued[j] = ApplyPassed /\ issued[k] = RolloutPassed

\* a command failed earlier than position i
FailedBefore(i) == \E j \in 1..(i-1) : ~issued[j].ok

(* C4, as stated: a rollback-canary run that is not a dry run issues       *)
(* exactly one cluster command, the scale of <app>-canary to 0 replicas,   *)
(* and no other kubectl command, also when the scale succeeds (the         *)
(* diagnostics that follow a failed command are left aside).               *)
C4_RollbackCanaryOnlyScales ==
    (params.Action = "rollback-canary" /\ ~params.DryRun) =>
        /\ \A i \in Issued :
              issued[i].c.bin = "kubectl" =>
                  \/ /\ issued[i].c.verb = "scale"
                     /\ issued[i].c.name = "myapp-canary"
                     /\ issued[i].c.opt = "--replicas=0"
                  \/ IsDiagnostic(issued[i].c) /\ FailedBefore(i)
        /\ pc = "done" => Cardinality({i \in Issued : issued[i].c.bin = "kubectl"}) = 1

(* C5: deploy-canary scales <app>-canary to exactly 1 replica after the    *)
(* apply and the rollout wait succeeded; afterwards <app>-canary-configs   *)
(* is deleted iff no config file is declared and <app>-canary-secrets iff  *)
(* no secret key is declared, independently; nothing else is deleted.      *)
C5_DeployCanary ==
    (params.Action = "deploy-canary" /\ ~params.DryRun) =>
        /\ ScaleTargets \subseteq {<<"myapp-canary", "--replicas=1">>}
        /\ ScaleFollowsRollout
        /\ DeletesFollowScale
        /\ DeleteTargets \subseteq
              (IF params.Files = 0 THEN {<<"configmap", "myapp-canary-configs">>} ELSE {})
              \cup (IF params.Keys = 0 THEN {<<"secret", "myapp-canary-secrets">>} ELSE {})
        /\ SwitchCompleted =>
              /\ ScaleTargets = {<<"myapp-canary", "--replicas=1">>}
              /\ (<<"configmap", "myapp-canary-configs">> \in DeleteTargets) <=> (params.Files = 0)
              /\ (<<"secret", "myapp-canary-secrets">> \in DeleteTargets) <=> (params.Keys = 0)

C5_Witness ==
    /\ params.Action = "deploy-canary"
    /\ pc = "done"
    /\ params.Files = 0
    /\ params.Keys > 0
    /\ DeleteTargets = {<<"configmap", "myapp-canary-configs">>}

SimpleTrackObjects ==
    {<<"deploy", "myapp">>, <<"configmap", "myapp-configs">>, <<"secret", "myapp-secrets">>,
     <<"hpa", "myapp">>, <<"pdb", "myapp">>}

(* C6: deploy-stable scales <app>-canary to 0 replicas after apply and     *)
(* rollout, then deletes the simple-track deployment, configmap, secret,   *)
(* hpa and pdb with ignore-not-found; <app>-stable-configs and             *)
(* <app>-stable-secrets are deleted only when declared empty and the       *)
(* ingress only when the visibility is public.                             *)
C6_DeployStable ==
    (params.Action = "deploy-stable" /\ ~params.DryRun) =>
        /\ ScaleTargets \subseteq {<<"myapp-canary", "--replicas=0">>}
        /\ ScaleFollowsRollout
        /\ DeletesFollowScale
        /\ AllDeletesIgnoreNotFound
        /\ DeleteTargets \subseteq
              SimpleTrackObjects
              \cup (IF params.Files = 0 THEN {<<"configmap", "myapp-stable-configs">>} ELSE {})
              \cup (IF params.Keys = 0 THEN {<<"secret", "myapp-stable-secrets">>} ELSE {})
              \cup (IF params.Visibility = "public" THEN {<<"ingress", "myapp">>} ELSE {})
        /\ SwitchCompleted =>
              /\ ScaleTargets = {<<"myapp-canary", "--replicas=0">>}
              /\ SimpleTrackObjects \subseteq DeleteTargets

C6_Witness ==
    /\ params.Action = "deploy-stable"
    /\ pc = "done"
    /\ params.Visibility = "public"
    /\ params.Files > 0
    /\ params.Keys = 0
    /\ DeleteTargets = SimpleTrackObjects \cup {<<"secret", "myapp-stable-secrets">>, <<"ingress", "myapp">>}

CanaryAndStableTrackObjects ==
    {<<"deploy", "myapp-canary">>, <<"configmap", "myapp-canary-configs">>,
     <<"secret", "myapp-canary-secrets">>, <<"hpa", "myapp-canary">>, <<"pdb", "myapp-canary">>,
     <<"deploy", "myapp-stable">>, <<"configmap", "myapp-stable-configs">>,
     <<"secret", "myapp-stable-secrets">>, <<"hpa", "myapp-stable">>, <<"pdb", "myapp-stable">>}

(* C7: deploy-simple issues no scale command; after apply and rollout it   *)
(* deletes the deployment, configmap, secret, hpa and pdb of the canary    *)
(* and of the stable track with ignore-not-found; <app>-configs and        *)
(* <app>-secrets are deleted only when declared empty and the ingress only *)
(* when the visibility is public.                                          *)
C7_DeploySimple ==
    (params.Action = "deploy-simple" /\ ~params.DryRun) =>
        /\ ScaleTargets = {}
        /\ \A i \in Issued : issued[i].c.verb = "delete" =>
              \E j, k \in 1..(i-1) : j < k /\ issued[j] = ApplyPassed /\ issued[k] = RolloutPassed
        /\ AllDeletesIgnoreNotFound
        /\ DeleteTargets \subseteq
              CanaryAndStableTrackObjects
              \cup (IF params.Files = 0 THEN {<<"configmap", "myapp-configs">>} ELSE {})
              \cup (IF params.Keys = 0 THEN {<<"secret", "myapp-secrets">>} ELSE {})
              \cup (IF params.Visibility = "public" THEN {<<"ingress", "myapp">>} ELSE {})
        /\ SwitchCompleted => CanaryAndStableTrackObjects \subseteq DeleteTargets

C7_Witness ==
    /\ params.Action = "deploy-simple"
    /\ pc = "done"
    /\ params.Visibility = "private"
    /\ params.Files = 0
    /\ DeleteTargets = CanaryAndStableTrackObjects \cup {<<"configmap", "myapp-configs">>}

\* the objects the requested action deploys are present
RequestedTrackPresent ==
    CASE params.Action = "deploy-canary" -> [kind |-> "deploy", name |-> "myapp-canary"] \in cluster
      [] params.Action = "deploy-stable" -> [kind |-> "deploy", name |-> "myapp-stable"] \in cluster
      [] params.Action = "deploy-simple" -> [kind |-> "deploy", name |-> "myapp"] \in cluster
      [] OTHER -> TRUE

\* the objects of the tracks the requested action replaces are absent
LeftoversAbsent ==
    CASE params.Action = "deploy-stable" ->
             \A o \in SimpleTrackObjects : [kind |-> o[1], name |-> o[2]] \notin cluster
      [] params.Action = "deploy-simple" ->
             \A o \in CanaryAndStableTrackObjects : [kind |-> o[1], name |-> o[2]] \notin cluster
      [] OTHER -> TRUE

(* C8, as stated: from each of the prior states none-applied,              *)
(* canary-active, stable-active and simple-active, with every command      *)
(* ending as a healthy cluster decides, a pass that is not a dry run ends  *)
(* without a fatal abort, with the requested track present and the         *)
(* leftovers of the other strategy absent.                                 *)
C8_ConvergenceFromAnyTrack ==
    (/\ pc \in {"done", "fatal"}
     /\ ~params.DryRun
     /\ ~abnormal
     /\ Cardinality(prior) <= 1) =>
        /\ pc = "done"
        /\ RequestedTrackPresent
        /\ LeftoversAbsent

(* C9, as stated: once mutating mode is entered, the failure of any        *)
(* cluster command, the service patch included, is followed by the         *)
(* diagnostics collector before the process terminates fatally.            *)
C9_DiagnosticsOnExecutionFailure ==
    (pc = "fatal" /\ assistTroubleshootingOnError) =>
        \E i, j \in Issued :
            /\ i < j
            /\ IsMutation(issued[i].c)
            /\ ~issued[i].ok
            /\ IsDiagnostic(issued[j].c)

\* a command run before mutating mode is entered
IsPreMutation(c) == c.bin = "gcloud" \/ c = kubectlApplyDryRunArgs

(* C10: the failure of a command run before mutating mode is entered       *)
(* (a gcloud command or the dry-run apply) is the last command of the      *)
(* process: it terminates fatally and no diagnostics command is issued.    *)
C10_NoDiagnosticsBeforeMutatingPhase ==
    /\ ~assistTroubleshootingOnError => \A i \in Issued : ~IsDiagnostic(issued[i].c)
    /\ \A i \in Issued :
          (IsPreMutation(issued[i].c) /\ ~issued[i].ok) =>
              /\ i = Len(issued)
              /\ Aborting
              /\ ~assistTroubleshootingOnError

C10_Witness ==
    /\ pc = "fatal"
    /\ issued # << >>
    /\ issued[Len(issued)] = DryRunFailed

----------------------------------------------------------------------------
\* apply, rollout wait, scale, delete or annotate
IsHardMutation(c) == IsMutation(c) /\ c.verb # "patch"

(* C11: a command that failed is never issued again; after the first       *)
(* failed apply, rollout wait, scale, delete or annotate no further        *)
(* mutating command is issued (only diagnostics follow); the one second    *)
(* attempt is the alternate service-patch payload, which directly follows  *)
(* the failed first patch.                                                 *)
C11_FailFastWithoutRetries ==
    \A i \in Issued :
        ~issued[i].ok =>
            /\ \A j \in (i+1)..Len(issued) : issued[j].c # issued[i].c
            /\ (IsHardMutation(issued[i].c) \/ IsPreMutation(issued[i].c)) =>
                   \A j \in (i+1)..Len(issued) : IsDiagnostic(issued[j].c)
            /\ (issued[i].c.verb = "patch" /\ i < Len(issued)) =>
                   /\ issued[i].c.opt = "remove-loadBalancerSourceRanges"
                   /\ issued[i+1].c.verb = "patch"
                   /\ issued[i+1].c.opt = ""
                   /\ \A j \in (i+2)..Len(issued) :
                          issued[j].c.verb = "patch" => FALSE

C11_Witness ==
    /\ pc = "fatal"
    /\ \E i, j \in Issued :
          /\ i < j
          /\ issued[i] = [c |-> RolloutCmd(params), ok |-> FALSE]
          /\ IsDiagnostic(issued[j].c)
    /\ \E i \in Issued : issued[i].c.verb = "patch" /\ ~issued[i].ok

\* the two patch commands, spelled out
PatchFirst == [bin |-> "kubectl", verb |-> "patch", kind |-> "service", name |-> "myapp",
               opt |-> "remove-loadBalancerSourceRanges"]

PatchSecond == [bin |-> "kubectl", verb |-> "patch", kind |-> "service", name |-> "myapp", opt |-> ""]

ServiceLookup == [bin |-> "kubectl", verb |-> "get", kind |-> "service", name |-> "myapp",
                  opt |-> "-o=jsonpath={.spec.type}"]

(* C12: a service patch is issued only for visibility private and an       *)
(* existing service of type NodePort or LoadBalancer; the payload removing *)
(* loadBalancerSourceRanges comes first and the other one is issued iff    *)
(* the first failed; when both fail the process aborts and the real apply  *)
(* is never issued; otherwise (ClusterIP, absent, lookup failed, or        *)
(* visibility public or iap) no patch is issued and the apply proceeds.    *)
C12_ServicePatchProtocol ==
    /\ \A i \in Issued :
          /\ issued[i].c.verb = "patch" =>
                /\ params.Visibility = "private"
                /\ serviceType \in {"NodePort", "LoadBalancer"}
                /\ \E j \in 1..(i-1) : issued[j] = [c |-> ServiceLookup, ok |-> TRUE]
                /\ issued[i].c \in {PatchFirst, PatchSecond}
          /\ issued[i].c = PatchSecond =>
                i > 1 /\ issued[i-1] = [c |-> PatchFirst, ok |-> FALSE]
          /\ issued[i] = [c |-> PatchFirst, ok |-> FALSE] =>
                IF i = Len(issued) THEN pc = "patch2" ELSE issued[i+1].c = PatchSecond
          /\ issued[i] = [c |-> PatchSecond, ok |-> FALSE] =>
                /\ i = Len(issued)
                /\ pc = "fatal"
          /\ issued[i].c = ServiceLookup => params.Visibility = "private"
    /\ Cardinality({i \in Issued : issued[i].c = PatchFirst}) <= 1
    /\ Cardinality({i \in Issued : issued[i].c = PatchSecond}) <= 1
    \* without a reason to patch, the apply is the next command after the dry run
    /\ (tmpl /\ ~params.DryRun /\ pc \in {"apply", "rollout", "switch", "cleanup", "done"}) =>
          ((\E i \in Issued : issued[i].c.verb = "patch")
              <=> (params.Visibility = "private" /\ serviceType \in {"NodePort", "LoadBalancer"}))

C12_Witness ==
    /\ \E i \in Issued :
          /\ i + 2 <= Len(issued)
          /\ issued[i] = [c |-> PatchFirst, ok |-> FALSE]
          /\ issued[i+1] = [c |-> PatchSecond, ok |-> TRUE]
          /\ issued[i+2] = ApplyPassed

----------------------------------------------------------------------------
(* C13: for every outcome of starting the two processes, for grep exiting  *)
(* early and for any amount of output of kubectl get events,               *)
(* assistTroubleshooting returns: as long as it has not returned, some     *)
(* step of main, of a process or of a copying goroutine is possible.       *)
C13_PipeNeverDeadlocks ==
    pipe.main = "returned" \/ ENABLED PipeNext

\* a mutating command failed for good: any but the first service patch
MutationFailed ==
    \E i \in Issued :
        /\ ~issued[i].ok
        /\ IsMutation(issued[i].c)
        /\ issued[i].c # PatchFirst

DiagnosticIndexes(c) == {i \in Issued : issued[i].c = c}

(* C14: once a mutating command failed the process ends fatally, whatever  *)
(* the diagnostics commands do: it never ends normally and is never stuck  *)
(* short of the fatal exit; a failing diagnostics command alone is never   *)
(* fatal; no diagnostics command is issued twice; the canary logs are      *)
(* fetched only for deploy-canary.                                         *)
C14_DiagnosticsBestEffort ==
    /\ MutationFailed => (pc # "done" /\ (pc = "fatal" \/ ENABLED Next))
    /\ (\A i \in Issued : ~issued[i].ok => IsDiagnostic(issued[i].c)) => pc # "fatal"
    /\ \A i \in Issued :
          IsDiagnostic(issued[i].c) => Cardinality(DiagnosticIndexes(issued[i].c)) = 1
    /\ \A i \in Issued :
          issued[i].c.verb = "logs" => params.Action = "deploy-canary"

----------------------------------------------------------------------------
(* Vocabulary of the properties on SetDefaults and validation *)

\* p with field f emptied
Blank(p, f) == [p EXCEPT ![f] = ZeroValue(f)]

\* ValidateRequiredProperties was applied to raw as it is
ValidatedAsGiven(raw) ==
    /\ resolution.stage = "validated"
    /\ ~resolution.defaulted
    /\ resolution.raw = raw

\* SetDefaults was applied, and validation not yet
Defaulted == resolution.stage = "defaulted"

RequiredFieldsOfTheBaseline ==
    {"App", "Namespace", "Container.ImageRepository", "Container.ImageName",
     "Container.ImageTag", "Credentials",
     "Container.CPU.Request", "Container.CPU.Limit",
     "Container.Memory.Request", "Container.Memory.Limit",
     "Container.Port", "Hosts",
     "Autoscale.MinReplicas", "Autoscale.MaxReplicas", "Autoscale.CPUPercentage",
     "Container.LivenessProbe.Path", "Container.LivenessProbe.InitialDelaySeconds",
     "Container.LivenessProbe.TimeoutSeconds",
     "Container.ReadinessProbe.Path", "Container.ReadinessProbe.TimeoutSeconds",
     "Sidecar.Type", "Sidecar.Image", "Sidecar.CPU.Request", "Sidecar.CPU.Limit",
     "Sidecar.Memory.Request", "Sidecar.Memory.Limit",
     "Basepath", "RollingUpdate.MaxSurge", "RollingUpdate.MaxUnavailable"}

(* C16: ValidateRequiredProperties finds no error in validParams, and at   *)
(* least one error in validParams with any single required field emptied   *)
(* or zeroed; the readiness initial delay of validParams is 0.             *)
C16_ValidationExhaustive ==
    /\ ValidatedAsGiven(validParams) => resolution.errors = {}
    /\ \A f \in RequiredFieldsOfTheBaseline :
          ValidatedAsGiven(Blank(validParams, f)) => resolution.errors # {}
    /\ validParams["Container.ReadinessProbe.InitialDelaySeconds"] = 0
    /\ \A f \in RequiredFieldsOfTheBaseline : Blank(validParams, f) # validParams

C16_Witness ==
    /\ ValidatedAsGiven(Blank(validParams, "Hosts"))
    /\ resolution.errors = {"Hosts"}

MetricsPathAndPort == {"Container.Metrics.Path", "Container.Metrics.Port"}

(* C17: with metrics scrape "false" an empty metrics path and a zero       *)
(* metrics port validate; with scrape "true" an empty path and a zero port *)
(* are each an error.                                                      *)
C17_MetricsConditional ==
    resolution.stage = "validated" =>
        /\ resolution.p["Container.Metrics.Scrape"] = "false" =>
              resolution.errors \cap MetricsPathAndPort = {}
        /\ \A f \in MetricsPathAndPort :
              /\ ValidatedAsGiven(Blank([validParams EXCEPT !["Container.Metrics.Scrape"] = "false"], f))
                    => resolution.errors = {}
              /\ (resolution.p["Container.Metrics.Scrape"] = "true" /\ IsZero(resolution.p, f))
                    => f \in resolution.errors

C17_Witness ==
    /\ ValidatedAsGiven([validParams EXCEPT !["Container.Metrics.Scrape"] = "false",
                                            !["Container.Metrics.Port"] = 0])
    /\ resolution.errors = {}

\* the constants of the defaults, field by field
DocumentedConstants ==
    << <<"Container.Port", 5000>>,
       <<"Container.LivenessProbe.Path", "/liveness">>,
       <<"Container.LivenessProbe.InitialDelaySeconds", 30>>,
       <<"Container.LivenessProbe.TimeoutSeconds", 1>>,
       <<"Container.ReadinessProbe.Path", "/readiness">>,
       <<"Container.ReadinessProbe.InitialDelaySeconds", 0>>,
       <<"Container.ReadinessProbe.TimeoutSeconds", 1>>,
       <<"Container.Metrics.Scrape", "true">>,
       <<"Container.Metrics.Path", "/metrics">>,
       <<"Autoscale.MinReplicas", 3>>,
       <<"Autoscale.MaxReplicas", 100>>,
       <<"Autoscale.CPUPercentage", 80>>,
       <<"RollingUpdate.MaxSurge", "25%">>,
       <<"RollingUpdate.MaxUnavailable", "25%">>,
       <<"Visibility", "private">>,
       <<"Basepath", "/">>,
       <<"Configs.MountPath", "/configs">>,
       <<"Secrets.MountPath", "/secrets">>,
       <<"Sidecar.Type", "openresty">> >>

\* the fields that default to a value computed from the arguments or from
\* another field of the result
DerivedDefault(out, args, f) ==
    CASE f = "Container.ImageName" -> out["App"]
      [] f = "Container.ImageTag" -> args.buildVersion
      [] f = "Credentials" -> "gke-" \o args.releaseName
      [] f = "Container.Metrics.Port" -> out["Container.Port"]

DerivedFields ==
    {"Container.ImageName", "Container.ImageTag", "Credentials", "Container.Metrics.Port"}

DocumentedPairs ==
    { <<"Container.CPU.Request", "Container.CPU.Limit", "100m", "125m">>,
      <<"Container.Memory.Request", "Container.Memory.Limit", "128Mi", "128Mi">>,
      <<"Sidecar.CPU.Request", "Sidecar.CPU.Limit", "10m", "50m">>,
      <<"Sidecar.Memory.Request", "Sidecar.Memory.Limit", "10Mi", "50Mi">> }

(* C20: for each of the four request/limit pairs SetDefaults resolves the  *)
(* request to the limit when only the limit is set, the limit to the       *)
(* request when only the request is set, changes neither when both are     *)
(* set, resolves both to the fixed pair when both are empty, and leaves    *)
(* neither empty.                                                          *)
C20_RequestLimitFallback ==
    Defaulted =>
        \A pair \in DocumentedPairs :
            LET request == resolution.raw[pair[1]]
                limit == resolution.raw[pair[2]]
                resolved == << resolution.p[pair[1]], resolution.p[pair[2]] >>
            IN  /\ (request = "" /\ limit # "") => resolved = <<limit, limit>>
                /\ (request # "" /\ limit = "") => resolved = <<request, request>>
                /\ (request # "" /\ limit # "") => resolved = <<request, limit>>
                /\ (request = "" /\ limit = "") => resolved = <<pair[3], pair[4]>>
                /\ resolved[1] # "" /\ resolved[2] # ""

C20_Witness ==
    /\ Defaulted
    /\ resolution.raw = [ZeroParams EXCEPT !["Sidecar.Memory.Limit"] = "300m"]
    /\ resolution.p["Sidecar.Memory.Request"] = "300m"
    /\ resolution.p["Sidecar.Memory.Limit"] = "300m"
    /\ resolution.p["Container.CPU.Request"] = "100m"
    /\ resolution.p["Container.CPU.Limit"] = "125m"

----------------------------------------------------------------------------
\* the resolved params pass ValidateRequiredProperties
ParamsAreValid == ValidateRequiredProperties(FullParams(params)) = {}

\* a credential of the resolved name was supplied
CredentialExists == \E i \in DOMAIN env.credentials : env.credentials[i].name = CredentialReference

(* C15: when the validation of the parameters fails, or no supplied        *)
(* credential has exactly the name of the resolved credential reference,   *)
(* the process terminates with no external command run and neither the     *)
(* manifest nor the key file written.                                      *)
C15_ConfigurationErrorsNonMutating ==
    (~ParamsAreValid \/ ~CredentialExists) =>
        /\ issued = << >>
        /\ written = {}
        /\ pc \in {"credential", "params", "fatal"}

C15_Witness ==
    /\ pc = "fatal"
    /\ ~ParamsAreValid
    /\ CredentialExists
    /\ issued = << >>
    /\ written = {}

(* C18: validation succeeds only for a visibility that is exactly public,  *)
(* private or iap and for an action that is exactly one of deploy-simple,  *)
(* deploy-canary, deploy-stable and rollback-canary: for any other literal *)
(* no manifest is written or applied and no command is run.                *)
C18_EnumerationClosure ==
    (params.Visibility \notin Visibilities \/ params.Action \notin Actions) =>
        /\ issued = << >>
        /\ written = {}
        /\ pc \in {"credential", "params", "fatal"}

----------------------------------------------------------------------------
\* the labels SetDefaults starts from: those given, or the pipeline's
LabelsBase ==
    IF DOMAIN resolution.raw["Labels"] = {}
    THEN resolution.args.estafetteLabels
    ELSE resolution.raw["Labels"]

(* C21: SetDefaults replaces an empty labels map by the estafette labels    *)
(* and adds, removes or changes no key but app of a non-empty one; with an  *)
(* application-name seed (the app label) the key app becomes the resolved   *)
(* application name, and without one an existing app value is kept.        *)
C21_LabelResolution ==
    Defaulted =>
        LET out == resolution.p["Labels"]
        IN  /\ \A k \in (DOMAIN LabelsBase \cup DOMAIN out) \ {"app"} :
                  /\ k \in DOMAIN LabelsBase
                  /\ k \in DOMAIN out
                  /\ out[k] = LabelsBase[k]
            /\ resolution.args.appLabel # "" =>
                  /\ "app" \in DOMAIN out
                  /\ out["app"] = resolution.p["App"]
                  /\ resolution.p["App"] # ""
            /\ resolution.args.appLabel = "" =>
                  /\ ("app" \in DOMAIN out) <=> ("app" \in DOMAIN LabelsBase)
                  /\ "app" \in DOMAIN LabelsBase => out["app"] = LabelsBase["app"]

C21_Witness ==
    /\ Defaulted
    /\ resolution.raw = [ZeroParams EXCEPT !["Labels"] = [team |-> "yourteam"]]
    /\ resolution.args.appLabel = "myapp"
    /\ DOMAIN resolution.args.estafetteLabels = {"app", "team", "language"}
    /\ DOMAIN resolution.p["Labels"] = {"app", "team"}
    /\ resolution.p["Labels"]["app"] = "myapp"
    /\ resolution.p["Labels"]["team"] = "yourteam"

----------------------------------------------------------------------------
(* Vocabulary of the properties on getTemplates *)

Returned == composition.stage = "returned"

Contains(templates, path) == \E i \in DOMAIN templates : templates[i] = path

\* a local manifest has the base filename of this template
Overridden(template) ==
    \E i \in DOMAIN composition.localManifests :
        Base(composition.localManifests[i]) = Base(template)

(* C22 as claimed: the list getTemplates returns contains the ingress      *)
(* template iff visibility is private or iap, the application-secrets      *)
(* template iff there are secrets, the configs template iff there are      *)
(* config files.                                                           *)
C22_ConditionalInclusion ==
    Returned =>
        /\ Contains(composition.templates, IngressTemplate)
              <=> composition.visibility \in {"private", "iap"}
        /\ Contains(composition.templates, SecretsTemplate) <=> composition.secrets > 0
        /\ Contains(composition.templates, ConfigsTemplate) <=> composition.files > 0

(* C22 amended: the same, for a template of which no local manifest has    *)
(* the base filename; a template that a local manifest overrides is not in *)
(* the list.                                                               *)
C22_ConditionalInclusionAmended ==
    Returned =>
        /\ Contains(composition.templates, IngressTemplate)
              <=> (composition.visibility \in {"private", "iap"} /\ ~Overridden(IngressTemplate))
        /\ Contains(composition.templates, SecretsTemplate)
              <=> (composition.secrets > 0 /\ ~Overridden(SecretsTemplate))
        /\ Contains(composition.templates, ConfigsTemplate)
              <=> (composition.files > 0 /\ ~Overridden(ConfigsTemplate))

C22_Witness ==
    /\ Returned
    /\ composition.visibility = "iap"
    /\ composition.secrets > 0
    /\ composition.localManifests = << << ".", "gke", "application-secrets.yaml" >> >>
    /\ Contains(composition.templates, IngressTemplate)
    /\ ~Contains(composition.templates, SecretsTemplate)

\* no two entries of the list have the same base filename
NoDuplicateBase(templates) ==
    \A i, j \in DOMAIN templates : Base(templates[i]) = Base(templates[j]) => i = j

(* C23: each step of the override pass puts the local manifest in the      *)
(* place of the selected template of its base filename, after which no     *)
(* other entry of that base filename is in the list, or appends it at the  *)
(* end when no selected template has its base filename; the list never     *)
(* holds two entries of one base filename.                                 *)
C23_OverridePass ==
    /\ NoDuplicateBase(composition.templates)
    /\ composition.stage = "overridden" =>
          LET manifest == composition.localManifests[composition.next - 1]
              before == composition.before
              after == composition.templates
          IN  IF \E i \in DOMAIN before : Base(before[i]) = Base(manifest)
              THEN /\ Len(after) = Len(before)
                   /\ \A i \in DOMAIN before :
                         after[i] = IF Base(before[i]) = Base(manifest)
                                    THEN manifest ELSE before[i]
              ELSE /\ Len(after) = Len(before) + 1
                   /\ after[Len(after)] = manifest
                   /\ \A i \in DOMAIN before : after[i] = before[i]

C23_Witness ==
    /\ Returned
    /\ composition.visibility = "private"
    /\ composition.localManifests = << << ".", "gke", "service.yaml" >>,
                                       << ".", "other", "service.yaml" >> >>
    /\ composition.templates[1] = << ".", "other", "service.yaml" >>
    /\ ~Contains(composition.templates, << ".", "gke", "service.yaml" >>)
    /\ ~Contains(composition.templates, Template("service.yaml"))
    /\ Len(composition.templates) = 4

----------------------------------------------------------------------------
(* Vocabulary of the property on the legacy exposure annotations *)

\* the annotations of the annotate commands issued, in order
AnnotationsStripped ==
    LET at == {i \in Issued : issued[i].c.verb = "annotate"}
        RECURSIVE inOrder(_)
        inOrder(n) ==
            IF n = 0 THEN << >>
            ELSE IF n \in at THEN Append(inOrder(n - 1), issued[n].c.opt)
                 ELSE inOrder(n - 1)
    IN  inOrder(Len(issued))

\* every annotate command is on the service of the application
AnnotateOnlyTheService ==
    \A i \in Issued : issued[i].c.verb = "annotate" =>
        issued[i].c.kind = "svc" /\ issued[i].c.name = "myapp"

(* C24 as claimed: a completed deploy-stable has stripped the four         *)
(* annotations iff the visibility is public, a completed deploy-simple has *)
(* stripped them whatever the visibility, and deploy-canary and            *)
(* rollback-canary issue no annotate command.                              *)
C24_LegacyAnnotations ==
    /\ params.Action \in {"deploy-canary", "rollback-canary"} => AnnotationsStripped = << >>
    /\ (params.Action = "deploy-stable" /\ params.Visibility # "public") =>
          AnnotationsStripped = << >>
    /\ (SwitchCompleted /\ params.Action = "deploy-stable" /\ params.Visibility = "public") =>
          AnnotationsStripped = CloudflareAnnotations
    /\ (SwitchCompleted /\ params.Action = "deploy-simple") =>
          AnnotationsStripped = CloudflareAnnotations

(* C24 amended: deploy-stable and deploy-simple strip the four annotations *)
(* from the service, as the last commands of the switch, when the          *)
(* visibility is private or iap, and issue no annotate command when it is  *)
(* public; deploy-canary and rollback-canary issue no annotate command.    *)
C24_LegacyAnnotationsAmended ==
    /\ AnnotateOnlyTheService
    /\ params.Action \notin {"deploy-stable", "deploy-simple"} => AnnotationsStripped = << >>
    /\ params.Visibility \notin {"private", "iap"} => AnnotationsStripped = << >>
    /\ params.DryRun => AnnotationsStripped = << >>
    /\ \E n \in 0..Len(CloudflareAnnotations) :
          AnnotationsStripped = SubSeq(CloudflareAnnotations, 1, n)
    /\ (SwitchCompleted /\ params.Action \in {"deploy-stable", "deploy-simple"}
           /\ params.Visibility \in {"private", "iap"}) =>
          AnnotationsStripped = CloudflareAnnotations

C24_Witness ==
    /\ pc = "done"
    /\ params.Action = "deploy-stable"
    /\ params.Visibility = "iap"
    /\ AnnotationsStripped = CloudflareAnnotations

----------------------------------------------------------------------------
(* Vocabulary of the properties on the layering of the params *)

\* validation was reached, whatever its result
ValidationReached ==
    layering.stage \in {"validated", "rendered"}
    \/ (layering.stage = "fatal" /\ layering.errors # {})

\* the parameters name the field and give it a value that is not empty
RawSets(f) == f \in DOMAIN layering.doc /\ ~IsZero(layering.doc, f)

\* the defaults of the selected credential give the field a value
CredentialSets(f) == layering.selected.DefaultsSet /\ ~IsZero(layering.selected.Defaults, f)

(* C25 as claimed: when neither the parameters nor the credential's        *)
(* defaults give a namespace, the params that reach validation have the    *)
(* credential's default namespace, and likewise the image repository the   *)
(* credential's project; a namespace or image repository that is given is  *)
(* kept.                                                                   *)
C25_CredentialSourcedDefaults ==
    ValidationReached =>
        /\ (~RawSets("Namespace") /\ ~CredentialSets("Namespace")) =>
              layering.validated["Namespace"] = layering.selected.DefaultNamespace
        /\ (~RawSets("Container.ImageRepository")
               /\ ~CredentialSets("Container.ImageRepository")) =>
              layering.validated["Container.ImageRepository"] = layering.selected.Project
        /\ RawSets("Namespace") =>
              layering.validated["Namespace"] = layering.doc["Namespace"]
        /\ RawSets("Container.ImageRepository") =>
              layering.validated["Container.ImageRepository"] =
                  layering.doc["Container.ImageRepository"]

\* the fields of a constant default that depends on no other field
PlainConstantFields == DOMAIN ConstantDefaults \ {"TrustedIPRanges"}

RawNames(f) == f \in DOMAIN layering.doc

\* the labels after json.Unmarshal: those of the credential's defaults and
\* those of the parameters
LayeredLabels ==
    LET given == IF RawNames("Labels") THEN layering.doc["Labels"] ELSE << >>
        embedded == IF layering.selected.DefaultsSet
                    THEN layering.selected.Defaults["Labels"] ELSE << >>
    IN  [k \in DOMAIN given \cup DOMAIN embedded |->
            IF k \in DOMAIN given THEN given[k] ELSE embedded[k]]

C27_ConfigurationImmutable ==
    /\ layering.stage \in {"validated", "rendered"} =>
          /\ layering.params = layering.validated
          /\ layering.renderedFileContent = ""
    /\ layering.credential = layering.selected

----------------------------------------------------------------------------
(* C28 as claimed: a command of the diagnostics collector is issued only   *)
(* after a mutating command has failed, so an invocation in which every    *)
(* command succeeds issues none, whatever the action.                      *)
C28_DiagnosticsFailureTriggered ==
    \A i \in Issued :
        IsDiagnostic(issued[i].c) =>
            \E j \in 1..(i-1) : ~issued[j].ok /\ IsMutation(issued[j].c)

----------------------------------------------------------------------------
(* Vocabulary of the property on the repeated invocation *)

\* a delete command was issued for an object that was not there
DeletedWhatWasAbsent ==
    \E i \in Issued :
        /\ issued[i].c.verb = "delete"
        /\ issued[i].ok
        /\ Obj(issued[i].c.kind, issued[i].c.name) \notin passes.left

(* C29: every delete command carries ignore-not-found and succeeds on a    *)
(* healthy cluster; in the repetition of a deploy-simple or deploy-stable  *)
(* that ended normally, with the same parameters on the cluster it left,   *)
(* every command succeeds, the deletes of the objects that are absent      *)
(* among them, and the set of objects of the cluster never differs from    *)
(* the one the first invocation left.                                      *)
C29_IdempotentCleanup ==
    /\ AllDeletesIgnoreNotFound
    /\ ~abnormal => \A i \in Issued : issued[i].c.verb = "delete" => issued[i].ok
    /\ (passes.n = 2 /\ ~abnormal) =>
          /\ \A i \in Issued : issued[i].ok
          /\ cluster = passes.left
          /\ pc # "blocked"
          /\ pc = "fatal" => issued = << >>

C29_Witness ==
    /\ passes.n = 2
    /\ pc = "done"
    /\ ~abnormal
    /\ params.Action = "deploy-stable"
    /\ params.Visibility = "public"
    /\ params.Keys = 0
    /\ cluster = passes.left
    /\ DeletedWhatWasAbsent
    /\ Obj("deploy", "myapp") \notin cluster
    /\ DeleteTargets = SimpleTrackObjects \cup {<<"secret", "myapp-stable-secrets">>, <<"ingress", "myapp">>}

----------------------------------------------------------------------------
(* Vocabulary of the property on the steps that need the manifest *)

\* the dry run, the lookup and the patch of the service, the apply, the
\* rollout wait
IsManifestStep(c) ==
    /\ c.bin = "kubectl"
    /\ \/ c.verb \in {"apply", "patch", "rollout-status"}
       \/ c.verb = "get" /\ c.kind = "service"

(* C30: /kubernetes.yaml is written and the dry run, the service patch     *)
(* check, the apply and the rollout wait are issued only when there are    *)
(* templates, and then only with the file written; without templates none  *)
(* of it happens, and an invocation that is not a dry run still runs the   *)
(* step of its action, with no dry run before it.                          *)
C30_ManifestStepsGuarded ==
    /\ "/kubernetes.yaml" \in written => (tmpl /\ buildTemplates(params))
    /\ \A i \in Issued :
          IsManifestStep(issued[i].c) =>
              (tmpl /\ buildTemplates(params) /\ "/kubernetes.yaml" \in written)
    /\ (SwitchCompleted /\ ~buildTemplates(params)) =>
          /\ ~tmpl
          /\ Len(issued) > 0
          /\ \E i \in Issued : IsScaleOrCleanup(issued[i].c) /\ issued[i].ok
          /\ [c |-> SwitchCommands(params)[1], ok |-> TRUE] \in {issued[i] : i \in Issued}

C30_Witness ==
    /\ pc = "done"
    /\ ~params.DryRun
    /\ ~buildTemplates(params)
    /\ written = {"/key-file.json"}
    /\ ScaleTargets = {<<"myapp-canary", "--replicas=0">>}
    /\ \A i \in Issued : ~IsManifestStep(issued[i].c)

====
